---- MODULE Spec2Model ----
(***************************************************************************)
(* Model of the travel-plan generation pipeline of the travel assistant:   *)
(* schema.validate_travel_plan, providers.GeoapifyProvider and             *)
(* llm.generate_travel_plan_json, with the session memory they share.      *)
(*                                                                         *)
(* Conventions.                                                            *)
(*  - A Python value that comes out of json.loads is a tagged record:      *)
(*    [t |-> "none"], [t |-> "str", v |-> s], [t |-> "num", v |-> n],      *)
(*    [t |-> "list", v |-> <<...>>], [t |-> "dict", v |-> [key |-> ...]].  *)
(*  - Numbers are fixed-point with one decimal digit: the integer n stands *)
(*    for n / 10 (so 10 is 1.0 and 10000 is 1000.0).                       *)
(*  - A call that may raise returns [ok |-> TRUE, val |-> v] or            *)
(*    [ok |-> FALSE, exc |-> type, msg |-> set of texts or field paths].   *)
(*  - A value that is used several times is passed as a parameter of a     *)
(*    helper operator, so that it is written once.                         *)
(***************************************************************************)
EXTENDS Integers, Sequences, FiniteSets, TLC

(***************************************************************************)
(* Python values                                                           *)
(***************************************************************************)
None == [t |-> "none"]

Str(s) == [t |-> "str", v |-> s]

Num(n) == [t |-> "num", v |-> n]

List(q) == [t |-> "list", v |-> q]

Dict(f) == [t |-> "dict", v |-> f]

\* whole number k as a fixed-point value
Whole(k) == k * 10

IsNone(x) == x.t = "none"

IsStr(x) == x.t = "str"

IsNum(x) == x.t = "num"

IsList(x) == x.t = "list"

IsDict(x) == x.t = "dict"

Ok(v) == [ok |-> TRUE, val |-> v]

Raise(type, msg) == [ok |-> FALSE, exc |-> type, msg |-> msg]

\* the first result if it is a value, else the second (try a, except: b)
FirstOk(a, b) == IF a.ok THEN a ELSE b

\* key in d
Has(d, k) == k \in DOMAIN d.v

\* d.get(k, default)
GetD(d, k, default) == IF k \in DOMAIN d.v THEN d.v[k] ELSE default

\* d.get(k)
Get(d, k) == IF k \in DOMAIN d.v THEN d.v[k] ELSE None

\* d[k] = x
Put(d, k, x) == Dict([j \in DOMAIN d.v \cup {k} |-> IF j = k THEN x ELSE d.v[j]])

\* bool(x)
Truthy(x) ==
  CASE x.t = "none" -> FALSE
    [] x.t = "str"  -> x.v # ""
    [] x.t = "num"  -> x.v # 0
    [] x.t = "list" -> Len(x.v) > 0
    [] x.t = "dict" -> DOMAIN x.v # {}
    [] OTHER        -> TRUE

\* a or b
PyOr(a, b) == IF Truthy(a) THEN a ELSE b

(***************************************************************************)
(* Text helpers: characters of a string are reached with SubSeq.           *)
(***************************************************************************)
LowerLetters == "abcdefghijklmnopqrstuvwxyz"

UpperLetters == "ABCDEFGHIJKLMNOPQRSTUVWXYZ"

Ch(s, i) == SubSeq(s, i, i)

IsLowerCh(c) == \E i \in 1..26 : SubSeq(LowerLetters, i, i) = c

IsUpperCh(c) == \E i \in 1..26 : SubSeq(UpperLetters, i, i) = c

UpperCh(c) ==
  IF IsLowerCh(c)
    THEN Ch(UpperLetters, CHOOSE i \in 1..26 : SubSeq(LowerLetters, i, i) = c)
    ELSE c

LowerCh(c) ==
  IF IsUpperCh(c)
    THEN Ch(LowerLetters, CHOOSE i \in 1..26 : SubSeq(UpperLetters, i, i) = c)
    ELSE c

RECURSIVE UpperFrom(_, _)
UpperFrom(s, i) == IF i > Len(s) THEN "" ELSE UpperCh(Ch(s, i)) \o UpperFrom(s, i + 1)

\* str.upper()
ToUpper(s) == UpperFrom(s, 1)

\* the character of str.title() at a position, after a cased character or not
TitleCh(c, prevCased) == IF prevCased THEN LowerCh(c) ELSE UpperCh(c)

RECURSIVE TitleFrom(_, _, _)
TitleFrom(s, i, prevCased) ==
  IF i > Len(s) THEN ""
  ELSE TitleCh(Ch(s, i), prevCased)
         \o TitleFrom(s, i + 1, IsLowerCh(Ch(s, i)) \/ IsUpperCh(Ch(s, i)))

\* str.title()
Title(s) == TitleFrom(s, 1, FALSE)

\* sub in s
Contains(s, sub) ==
  \E i \in 1..(Len(s) - Len(sub) + 1) : SubSeq(s, i, i + Len(sub) - 1) = sub

\* str(n) of a fixed-point number: whole numbers print as integers
NumStr(n) ==
  IF n % 10 = 0 THEN ToString(n \div 10)
  ELSE ToString(n \div 10) \o "." \o ToString(n % 10)

\* f"{x}" for the scalar values of the model
Format(x) ==
  CASE x.t = "none" -> "None"
    [] x.t = "str"  -> x.v
    [] x.t = "num"  -> NumStr(x.v)
    [] OTHER        -> "<object>"

(***************************************************************************)
(* schema.py: normalisation of legacy shapes, then the pydantic models     *)
(***************************************************************************)
DefaultCost == Dict([min |-> Num(0), max |-> Num(0), currency |-> Str("INR")])

\* est_cost of _normalize_option: a bare number becomes a min = max cost
CostOf(c0) ==
  IF c0.t = "num"
    THEN Dict([min |-> Num(c0.v), max |-> Num(c0.v), currency |-> Str("INR")])
    ELSE c0

\* est_time of _normalize_option
TimeOf(opt) ==
  IF Has(opt, "estimated_travel_time") THEN Get(opt, "estimated_travel_time")
  ELSE IF Has(opt, "duration_hours")
    THEN Str(Format(Get(opt, "duration_hours")) \o " hr")
  ELSE Str("N/A")

\* distance of _normalize_option
DistanceOf(opt) ==
  IF IsNone(Get(opt, "distance_km"))
    THEN PyOr(Get(opt, "estimated_distance_km"), PyOr(Get(opt, "distance"), Num(Whole(1))))
    ELSE Get(opt, "distance_km")

\* the dict _normalize_option returns, for its mode and vehicles
OptionDict(opt, mode, v0) ==
  IF IsNone(v0) /\ ~IsStr(mode)
    THEN Raise("AttributeError", {"object has no attribute 'title'"})
    ELSE Ok(Dict([mode |-> mode,
                  estimated_travel_time |-> TimeOf(opt),
                  distance_km |-> DistanceOf(opt),
                  available_vehicles |->
                    IF IsNone(v0) THEN List(<<Str(Title(mode.v))>>) ELSE v0,
                  estimated_cost |-> CostOf(GetD(opt, "estimated_cost", DefaultCost)),
                  route_summary |-> GetD(opt, "route_summary", Str(""))]))

\* validate_travel_plan._normalize_option; opt is a dict
_normalize_option(opt) ==
  OptionDict(opt,
             PyOr(Get(opt, "mode"), PyOr(Get(opt, "type"), Str("Route"))),
             Get(opt, "available_vehicles"))

\* a bare mode name expanded into a full option (schema.py:116-123)
ExpandModeString(opt) ==
  Dict([mode |-> opt,
        estimated_travel_time |-> Str("N/A"),
        distance_km |-> Num(Whole(1)),
        available_vehicles |-> List(<<opt>>),
        estimated_cost |-> DefaultCost,
        route_summary |-> Str("")])

\* the first failure of a sequence of results, or the sequence of their values
Collect(rs) ==
  IF \E i \in 1..Len(rs) : ~rs[i].ok
    THEN rs[CHOOSE i \in 1..Len(rs) : ~rs[i].ok /\ \A j \in 1..(i - 1) : rs[j].ok]
    ELSE Ok([i \in 1..Len(rs) |-> rs[i].val])

\* the leg name of a legacy route, were the fallback to count from zero
LegacyLegNameFromZero(route, idx) ==
  IF Truthy(Get(route, "leg_name")) THEN Get(route, "leg_name")
  ELSE IF Truthy(Get(route, "from")) /\ Truthy(Get(route, "to"))
    THEN Str(Format(Get(route, "from")) \o " -> " \o Format(Get(route, "to")))
  ELSE Str("Leg " \o ToString(idx))

\* the synthesized leg name of a legacy route (schema.py:133-140)
LegacyLegName(route, idx) ==
  IF Truthy(Get(route, "leg_name")) THEN Get(route, "leg_name")
  ELSE IF Truthy(Get(route, "from")) /\ Truthy(Get(route, "to"))
    THEN Str(Format(Get(route, "from")) \o " -> " \o Format(Get(route, "to")))
  ELSE Str("Leg " \o ToString(idx + 1))

\* route["transport_options"] = the normalised options r (schema.py:124, 126)
WithOptions(route, r) ==
  IF r.ok THEN Ok(Put(route, "transport_options", List(r.val))) ELSE r

\* a route that has leg_name and transport_options tos (schema.py:112-128)
NormalizeOptions(route, tos) ==
  IF IsList(tos) /\ Len(tos.v) > 0
    THEN IF \A i \in 1..Len(tos.v) : IsStr(tos.v[i])
           THEN WithOptions(route, Ok([i \in 1..Len(tos.v) |-> ExpandModeString(tos.v[i])]))
         ELSE IF \A i \in 1..Len(tos.v) : IsDict(tos.v[i])
           THEN WithOptions(route,
                            Collect([i \in 1..Len(tos.v) |-> _normalize_option(tos.v[i])]))
         ELSE Ok(route)
    ELSE Ok(route)

\* the legacy single-route format, with its one option r (schema.py:131-144)
LegacyRoute(route, idx, r) ==
  IF r.ok
    THEN Ok(Dict([leg_name |-> LegacyLegName(route, idx),
                  transport_options |-> List(<<r.val>>)]))
    ELSE r

\* one pass of the loop over routes (schema.py:110-144); idx is 0-based
NormalizeRoute(route, idx) ==
  IF IsNum(route) \/ IsNone(route)
    THEN Raise("TypeError", {"argument is not iterable"})
  ELSE IF ~IsDict(route)
    THEN Raise("AttributeError", {"object has no attribute 'get'"})
  ELSE IF Has(route, "transport_options") /\ Has(route, "leg_name")
    THEN NormalizeOptions(route, Get(route, "transport_options"))
  ELSE LegacyRoute(route, idx, _normalize_option(route))

\* the wrapping of destination, were it to replace destinations
WrapDestinationAlways(d) ==
  IF Truthy(Get(d, "destination"))
    THEN Put(d, "destinations", List(<<Get(d, "destination")>>))
    ELSE d

\* data["destinations"] = [destination] (schema.py:147-150)
WrapDestination(d) ==
  IF ~Has(d, "destinations") /\ Truthy(Get(d, "destination"))
    THEN Put(d, "destinations", List(<<Get(d, "destination")>>))
    ELSE d

\* data["routes"] = normalized_routes (schema.py:145), then the destinations
WithRoutes(data, r) ==
  IF r.ok THEN Ok(WrapDestination(Put(data, "routes", List(r.val)))) ELSE r

\* schema.py:75-150: the normalised raw dict, or the exception the loop raised
NormalizePlan(data) ==
  IF IsList(Get(data, "routes"))
    THEN WithRoutes(data,
                    Collect([i \in 1..Len(Get(data, "routes").v) |->
                               NormalizeRoute(Get(data, "routes").v[i], i - 1)]))
    ELSE Ok(WrapDestination(data))

\* The pydantic models. Each XErrors(x, p) is the set of field paths at which
\* validating x (found at path p) as model X fails; XValue(x) is the dumped
\* model, read only when XErrors is empty. A float field takes a number (the
\* strings of the model are never numeric), a str field takes a str only.
\* A validator that runs after the type check reports only when that passed.
OrElse(e, after) == IF e # {} THEN e ELSE after

StrListErrors(x, p) ==
  IF ~IsList(x) THEN {p}
  ELSE {p \o "." \o ToString(i - 1) : i \in {j \in 1..Len(x.v) : ~IsStr(x.v[j])}}

StrListValue(x) == [i \in 1..Len(x.v) |-> x.v[i].v]

\* a required str field k of dict x
StrFieldErrors(x, k, p) ==
  IF k \in DOMAIN x.v /\ x.v[k].t = "str" THEN {} ELSE {p \o k}

\* a required float field k of dict x with a lower bound (strict or not)
FloatFieldErrors(x, k, p, low, strict) ==
  IF k \in DOMAIN x.v /\ x.v[k].t = "num"
       /\ (IF strict THEN x.v[k].v > low ELSE x.v[k].v >= low)
    THEN {} ELSE {p \o k}

\* class EstimatedCost
EstimatedCostErrors(x, p) ==
  IF ~IsDict(x) THEN {p}
  ELSE OrElse(FloatFieldErrors(x, "min", p \o ".", 0, FALSE)
                \cup FloatFieldErrors(x, "max", p \o ".", 0, FALSE)
                \cup (IF Has(x, "currency") /\ ~IsStr(x.v["currency"])
                        THEN {p \o ".currency"} ELSE {}),
              IF x.v["min"].v > x.v["max"].v THEN {p} ELSE {})

EstimatedCostValue(x) ==
  [min |-> x.v["min"].v,
   max |-> x.v["max"].v,
   currency |-> IF Has(x, "currency") THEN x.v["currency"].v ELSE "INR"]

\* class TransportOption
TransportOptionErrors(x, p) ==
  IF ~IsDict(x) THEN {p}
  ELSE StrFieldErrors(x, "mode", p \o ".")
         \cup StrFieldErrors(x, "estimated_travel_time", p \o ".")
         \cup FloatFieldErrors(x, "distance_km", p \o ".", 0, TRUE)
         \cup (IF ~Has(x, "available_vehicles") THEN {p \o ".available_vehicles"}
               ELSE OrElse(StrListErrors(x.v["available_vehicles"], p \o ".available_vehicles"),
                           IF Len(x.v["available_vehicles"].v) = 0
                             THEN {p \o ".available_vehicles"} ELSE {}))
         \cup (IF ~Has(x, "estimated_cost") THEN {p \o ".estimated_cost"}
               ELSE EstimatedCostErrors(x.v["estimated_cost"], p \o ".estimated_cost"))
         \cup StrFieldErrors(x, "route_summary", p \o ".")

TransportOptionValue(x) ==
  [mode |-> x.v["mode"].v,
   estimated_travel_time |-> x.v["estimated_travel_time"].v,
   distance_km |-> x.v["distance_km"].v,
   available_vehicles |-> StrListValue(x.v["available_vehicles"]),
   estimated_cost |-> EstimatedCostValue(x.v["estimated_cost"]),
   route_summary |-> x.v["route_summary"].v]

\* class Route
RouteErrors(x, p) ==
  IF ~IsDict(x) THEN {p}
  ELSE StrFieldErrors(x, "leg_name", p \o ".")
         \cup (IF ~Has(x, "transport_options") \/ ~IsList(x.v["transport_options"])
                 THEN {p \o ".transport_options"}
               ELSE OrElse(UNION {TransportOptionErrors(
                                    x.v["transport_options"].v[i],
                                    p \o ".transport_options." \o ToString(i - 1)) :
                                  i \in 1..Len(x.v["transport_options"].v)},
                           IF Len(x.v["transport_options"].v) = 0
                             THEN {p \o ".transport_options"} ELSE {}))

RouteValue(x) ==
  [leg_name |-> x.v["leg_name"].v,
   transport_options |->
     [i \in 1..Len(x.v["transport_options"].v) |->
        TransportOptionValue(x.v["transport_options"].v[i])]]

\* class TravelPlan; x is a dict
TravelPlanErrors(x) ==
  StrFieldErrors(x, "source", "")
    \cup (IF ~Has(x, "destinations") THEN {"destinations"}
          ELSE StrListErrors(x.v["destinations"], "destinations"))
    \cup FloatFieldErrors(x, "budget", "", 0, TRUE)
    \cup (IF ~Has(x, "routes") \/ ~IsList(x.v["routes"]) THEN {"routes"}
          ELSE OrElse(UNION {RouteErrors(x.v["routes"].v[i], "routes." \o ToString(i - 1)) :
                             i \in 1..Len(x.v["routes"].v)},
                      IF Len(x.v["routes"].v) = 0 THEN {"routes"} ELSE {}))
    \cup StrFieldErrors(x, "best_route_recommendation", "")
    \cup (IF ~Has(x, "detailed_travel_plan") \/ ~IsDict(x.v["detailed_travel_plan"])
            THEN {"detailed_travel_plan"}
          ELSE OrElse({"detailed_travel_plan." \o k :
                         k \in {j \in DOMAIN x.v["detailed_travel_plan"].v :
                                  ~IsStr(x.v["detailed_travel_plan"].v[j])}},
                      IF DOMAIN x.v["detailed_travel_plan"].v = {}
                        THEN {"detailed_travel_plan"} ELSE {}))

\* plan.model_dump(): the declared fields only (extra fields are ignored)
TravelPlanValue(x) ==
  [source |-> x.v["source"].v,
   destinations |-> StrListValue(x.v["destinations"]),
   budget |-> x.v["budget"].v,
   routes |-> [i \in 1..Len(x.v["routes"].v) |-> RouteValue(x.v["routes"].v[i])],
   best_route_recommendation |-> x.v["best_route_recommendation"].v,
   detailed_travel_plan |->
     [k \in DOMAIN x.v["detailed_travel_plan"].v |-> x.v["detailed_travel_plan"].v[k].v]]

\* TravelPlan.model_validate(x).model_dump() given the errors of x (schema.py:152-153)
ModelValidate(x, errors) ==
  IF errors # {} THEN Raise("ValidationError", errors) ELSE Ok(TravelPlanValue(x))

\* validation of the normalised dict, unless normalising raised
ValidateNormalized(n) ==
  IF ~n.ok THEN n ELSE ModelValidate(n.val, TravelPlanErrors(n.val))

\* schema.validate_travel_plan
validate_travel_plan(data) ==
  IF ~IsDict(data)
    THEN Raise("AttributeError", {"object has no attribute 'get'"})
    ELSE ValidateNormalized(NormalizePlan(data))

(***************************************************************************)
(* providers.py.  An HTTP reply of the routing service is a record:        *)
(*   geocode: [kind |-> "ok"] (one result), "empty" (no result),           *)
(*            "status" (a non-200 reply, with its code), "network" (the    *)
(*            HTTP call raises), "malformed" (a result without lat/lon);   *)
(*   routing: [kind |-> "ok", distance |-> metres or None,                 *)
(*            time |-> seconds or None], "status", "empty" (no features),  *)
(*            "network".                                                   *)
(* Metres and seconds are whole numbers; distance_km and costs are         *)
(* fixed-point like every number of a plan.                                *)
(***************************************************************************)
\* round(a / b) for a >= 0, b > 0: to nearest, ties to even
RoundDiv(a, b) ==
  IF 2 * (a % b) < b THEN a \div b
  ELSE IF 2 * (a % b) > b THEN (a \div b) + 1
  ELSE IF (a \div b) % 2 = 0 THEN a \div b ELSE (a \div b) + 1

\* the text of _format_duration for its hours and rem_minutes
DurationText(hours, rem_minutes) ==
  IF hours = 0 THEN ToString(rem_minutes) \o " min"
  ELSE IF rem_minutes = 0 THEN ToString(hours) \o " hr"
  ELSE ToString(hours) \o " hr " \o ToString(rem_minutes) \o " min"

\* providers._format_duration
_format_duration(seconds) ==
  DurationText(RoundDiv(seconds, 60) \div 60, RoundDiv(seconds, 60) % 60)

\* providers._estimate_cost; distance_km is fixed-point, the rates are per km
_estimate_cost(distance_km, mode) ==
  [min |-> Whole(RoundDiv(distance_km * (IF mode = "transit" THEN 2 ELSE 10), 10)),
   max |-> Whole(RoundDiv(distance_km * (IF mode = "transit" THEN 6 ELSE 16), 10)),
   currency |-> "INR"]

\* GeoapifyProvider.__init__ with the process environment's key (None if unset)
ProviderInit(api_key) ==
  IF ~Truthy(api_key) THEN Raise("ProviderError", {"GEOAPIFY_API_KEY is not set"})
  ELSE Ok(api_key)

\* GeoapifyProvider._geocode on the service's reply
_geocode(place, reply) ==
  CASE reply.kind = "network"   -> Raise("ConnectionError", {"HTTP call failed"})
    [] reply.kind = "status"    ->
         Raise("ProviderError", {"Geoapify geocoding failed (" \o ToString(reply.code) \o ")"})
    [] reply.kind = "empty"     -> Raise("ProviderError", {"Location not found: " \o place})
    [] reply.kind = "malformed" -> Raise("KeyError", {"lat"})
    [] reply.kind = "ok"        -> Ok([formatted |-> place])

\* GeoapifyProvider._route on the service's reply
_route(reply) ==
  CASE reply.kind = "network" -> Raise("ConnectionError", {"HTTP call failed"})
    [] reply.kind = "status"  ->
         Raise("ProviderError", {"Geoapify routing failed (" \o ToString(reply.code) \o ")"})
    [] reply.kind = "empty"   -> Raise("ProviderError", {"No route returned"})
    [] reply.kind = "ok"      -> Ok([distance_m |-> reply.distance, time_s |-> reply.time])

Modes == <<[mode |-> "drive", label |-> "Driving", vehicles |-> <<"Car", "Taxi">>],
           [mode |-> "transit", label |-> "Transit", vehicles |-> <<"Bus", "Train">>]>>

Skip == [skipped |-> TRUE]

\* the option appended for a mode (providers.py:108-121)
OptionOf(m, distance_km, time_s, cost) ==
  [mode |-> m.label,
   estimated_travel_time |-> _format_duration(time_s),
   distance_km |-> distance_km,
   available_vehicles |-> m.vehicles,
   estimated_cost |-> cost,
   route_summary |->
     "Distance/time from Geoapify routing. Cost estimated at INR "
       \o NumStr(cost.min) \o "-" \o NumStr(cost.max) \o " based on distance."]

\* providers.py:104-108: skip a mode without distance or time
Measured(m, distance_m, time_s) ==
  IF distance_m <= 0 \/ time_s <= 0 THEN Ok(Skip)
  ELSE Ok(OptionOf(m, RoundDiv(distance_m, 100), time_s,
                   _estimate_cost(RoundDiv(distance_m, 100), m.mode)))

\* providers.py:97-103: a ProviderError of _route skips the mode
Routed(m, route) ==
  IF ~route.ok
    THEN IF route.exc = "ProviderError" THEN Ok(Skip) ELSE route
    ELSE Measured(m, PyOr(route.val.distance_m, Num(0)).v, PyOr(route.val.time_s, Num(0)).v)

\* one pass of the loop over modes (providers.py:94-121): the option appended,
\* Skip for continue, or the exception that leaves the loop
ModeOption(m, reply) == Routed(m, _route(reply))

RECURSIVE KeepOptions(_)
KeepOptions(q) ==
  IF q = <<>> THEN <<>>
  ELSE IF "skipped" \in DOMAIN Head(q) THEN KeepOptions(Tail(q))
  ELSE <<Head(q)>> \o KeepOptions(Tail(q))

\* providers.py:123-125
NonEmptyOptions(options) ==
  IF options = <<>> THEN Raise("ProviderError", {"Insufficient route data from provider"})
  ELSE Ok(options)

\* the options of the loop's passes r, unless one raised
OptionsOf(r) == IF ~r.ok THEN r ELSE NonEmptyOptions(KeepOptions(r.val))

\* GeoapifyProvider.get_transport_options: geoSrc and geoDst are the results of
\* the two _geocode calls, routeReplies the service's reply for each mode
get_transport_options(geoSrc, geoDst, routeReplies) ==
  IF ~geoSrc.ok THEN geoSrc
  ELSE IF ~geoDst.ok THEN geoDst
  ELSE OptionsOf(Collect([i \in 1..Len(Modes) |-> ModeOption(Modes[i], routeReplies[i])]))

(***************************************************************************)
(* llm.py: the pure helpers                                                *)
(***************************************************************************)
IsSpace(c) == c \in {" ", "\n", "\t", "\r"}

\* c is stripped by strip() (chars = "") or by strip(chars)
Stripped(c, chars) == IF chars = "" THEN IsSpace(c) ELSE Contains(chars, c)

RECURSIVE LStripWhile(_, _)
LStripWhile(s, chars) ==
  IF s = "" THEN s
  ELSE IF Stripped(SubSeq(s, 1, 1), chars) THEN LStripWhile(SubSeq(s, 2, Len(s)), chars)
  ELSE s

RECURSIVE RStripWhile(_, _)
RStripWhile(s, chars) ==
  IF s = "" THEN s
  ELSE IF Stripped(SubSeq(s, Len(s), Len(s)), chars)
    THEN RStripWhile(SubSeq(s, 1, Len(s) - 1), chars)
  ELSE s

\* s.strip() and s.strip(chars)
Strip(s) == RStripWhile(LStripWhile(s, ""), "")

StripChars(s, chars) == RStripWhile(LStripWhile(s, chars), chars)

\* s.startswith(prefix)
StartsWith(s, prefix) == Len(s) >= Len(prefix) /\ SubSeq(s, 1, Len(prefix)) = prefix

\* s.find(c) and s.rfind(c), 1-based, 0 for "not found"
Find(s, sub) ==
  IF Contains(s, sub)
    THEN CHOOSE i \in 1..Len(s) :
           /\ SubSeq(s, i, i + Len(sub) - 1) = sub
           /\ \A j \in 1..(i - 1) : SubSeq(s, j, j + Len(sub) - 1) # sub
    ELSE 0

RFind(s, sub) ==
  IF Contains(s, sub)
    THEN CHOOSE i \in 1..Len(s) :
           /\ SubSeq(s, i, i + Len(sub) - 1) = sub
           /\ \A j \in (i + 1)..Len(s) : SubSeq(s, j, j + Len(sub) - 1) # sub
    ELSE 0

\* s with the text old, found at i (0: not found), replaced by new
ReplaceAt(s, i, old, new) ==
  IF i = 0 THEN s
  ELSE SubSeq(s, 1, i - 1) \o new \o SubSeq(s, i + Len(old), Len(s))

\* s.replace(old, new, 1)
ReplaceFirst(s, old, new) == ReplaceAt(s, Find(s, old), old, new)

\* TLA+ strings cannot hold a backquote: this character stands for it in
\* every text of the model
Backquote == "^"

Fence == Backquote \o Backquote \o Backquote

(***************************************************************************)
(* The texts the generative model returns in this model, and the value     *)
(* json.loads gives for each text that is valid JSON.                      *)
(***************************************************************************)
CanonicalPlanText ==
  "{\"source\": \"Delhi\", \"destinations\": [\"Agra\"], \"budget\": 5000"
    \o ", \"routes\": [{\"leg_name\": \"Delhi -> Agra\", \"transport_option"
    \o "s\": [{\"mode\": \"Train\", \"estimated_travel_time\": \"2 hr\", \"dis"
    \o "tance_km\": 230, \"available_vehicles\": [\"Train\"], \"estimated_"
    \o "cost\": {\"min\": 500, \"max\": 900, \"currency\": \"INR\"}, \"route_s"
    \o "ummary\": \"Fast\"}]}], \"best_route_recommendation\": \"Train\", \""
    \o "detailed_travel_plan\": {\"day_1\": \"Taj Mahal\"}}"

CanonicalPlanJson ==
  Dict([source |-> Str("Delhi"), destinations |-> List(<<Str("Agra")>>),
  budget |-> Num(50000),
  routes |-> List(<<Dict([leg_name |-> Str("Delhi -> Agra"),
  transport_options |-> List(<<Dict([mode |-> Str("Train"),
  estimated_travel_time |-> Str("2 hr"), distance_km |-> Num(2300),
  available_vehicles |-> List(<<Str("Train")>>),
  estimated_cost |-> Dict([min |-> Num(5000), max |-> Num(9000),
  currency |-> Str("INR")]), route_summary |-> Str("Fast")])>>)])>>),
  best_route_recommendation |-> Str("Train"),
  detailed_travel_plan |-> Dict([day_1 |-> Str("Taj Mahal")])])

\* the canonical plan as a fenced markdown block
FencedPlanText == Fence \o "json\n" \o CanonicalPlanText \o "\n" \o Fence

LegacyPlanText ==
  "{\"source\": \"Delhi\", \"destinations\": [\"Agra\", \"Jaipur\"], \"bud"
    \o "get\": 5000, \"routes\": [{\"from\": \"Delhi\", \"to\": \"Agra\", \"mode"
    \o "\": \"bus\", \"duration_hours\": 4.5, \"estimated_cost\": 500}, {\"r"
    \o "oute_name\": \"Cab\", \"distance\": 240, \"estimated_cost\": 3000}]"
    \o ", \"best_route_recommendation\": \"Bus\", \"detailed_travel_plan\""
    \o ": {\"day_1\": \"Agra\", \"day_2\": \"Jaipur\"}}"

LegacyPlanJson ==
  Dict([source |-> Str("Delhi"), destinations |-> List(<<Str("Agra"),
  Str("Jaipur")>>), budget |-> Num(50000),
  routes |-> List(<<Dict([from |-> Str("Delhi"), to |-> Str("Agra"),
  mode |-> Str("bus"), duration_hours |-> Num(45),
  estimated_cost |-> Num(5000)]), Dict([route_name |-> Str("Cab"),
  distance |-> Num(2400), estimated_cost |-> Num(30000)])>>),
  best_route_recommendation |-> Str("Bus"),
  detailed_travel_plan |-> Dict([day_1 |-> Str("Agra"),
  day_2 |-> Str("Jaipur")])])

SourceSentinelText ==
  "{\"error\": \"Enter a valid source\"}"

SourceSentinelJson ==
  Dict([error |-> Str("Enter a valid source")])

DestinationSentinelText ==
  "{\"error\": \"Enter a valid destination\"}"

DestinationSentinelJson ==
  Dict([error |-> Str("Enter a valid destination")])

NamedRoutesPlanText ==
  "{\"source\": \"Delhi\", \"destinations\": [\"Agra\"], \"budget\": 5000"
    \o ", \"routes\": [\"Train\"], \"best_route_recommendation\": \"Train\","
    \o " \"detailed_travel_plan\": {\"day_1\": \"Taj Mahal\"}}"

NamedRoutesPlanJson ==
  Dict([source |-> Str("Delhi"), destinations |-> List(<<Str("Agra")>>),
  budget |-> Num(50000), routes |-> List(<<Str("Train")>>),
  best_route_recommendation |-> Str("Train"),
  detailed_travel_plan |-> Dict([day_1 |-> Str("Taj Mahal")])])

ProseText == "Sorry, I cannot plan this trip."

NumberText == "42"

\* the texts the model returns to the prompt of suggest_places
PlacesText == "[\"Agra Fort\", \" Taj Mahal \", \"\"]"

PlacesObjectText == "{\"places\": [\"Hawa Mahal\"]}"

\* texts for _safe_json_parse on its own: an object, the object after prose
\* in a tagged fence, an object with the key "json" in a fence without a
\* tag and what replace("json", "", 1) leaves of it, an array after prose,
\* a span of braces that is no JSON before an array
SmallObjectText == "{\"a\":1}"

ProseFencedText == "Here is your plan:\n" \o Fence \o "json\n" \o SmallObjectText \o "\n" \o Fence

JsonKeyText == "{\"json\": 1}"

FencedJsonKeyText == Fence \o "\n" \o JsonKeyText \o "\n" \o Fence

EmptyKeyText == "{\"\": 1}"

ProseArrayText == "Ideas: " \o PlacesText \o " Enjoy."

BracesThenArrayText == "{oops} then []"

\* json.loads on the texts of the model: the valid JSON texts and their values
JsonValue ==
  (CanonicalPlanText :> CanonicalPlanJson)
    @@ (LegacyPlanText :> LegacyPlanJson)
    @@ (SourceSentinelText :> SourceSentinelJson)
    @@ (DestinationSentinelText :> DestinationSentinelJson)
    @@ (NamedRoutesPlanText :> NamedRoutesPlanJson)
    @@ (NumberText :> Num(420))
    @@ ("[]" :> List(<<>>))
    @@ (PlacesText :> List(<<Str("Agra Fort"), Str(" Taj Mahal "), Str("")>>))
    @@ (PlacesObjectText :> Dict([places |-> List(<<Str("Hawa Mahal")>>)]))
    @@ (SmallObjectText :> Dict([a |-> Num(10)]))
    @@ (JsonKeyText :> Dict([json |-> Num(10)]))
    @@ (EmptyKeyText :> Dict("" :> Num(10)))

\* the value of a JSON document s without surrounding whitespace
Decode(s) ==
  IF s \in DOMAIN JsonValue THEN Ok(JsonValue[s])
  ELSE Raise("JSONDecodeError", {"Expecting value"})

\* json.loads: surrounding whitespace is skipped
json_loads(text) == Decode(Strip(text))

\* the fence of a fenced markdown response removed (llm.py:41-43)
Unfence(cleaned) ==
  IF StartsWith(cleaned, Fence)
    THEN Strip(ReplaceFirst(StripChars(cleaned, Backquote), "json", ""))
    ELSE cleaned

\* cleaned[start:end + 1] as a candidate, if both ends are found in order
Slice(s, start, end) ==
  IF start # 0 /\ end # 0 /\ end > start THEN <<SubSeq(s, start, end)>> ELSE <<>>

\* the candidates of llm.py:50-59: the outermost object, then the outermost array
Candidates(cleaned) ==
  Slice(cleaned, Find(cleaned, "{"), RFind(cleaned, "}"))
    \o Slice(cleaned, Find(cleaned, "["), RFind(cleaned, "]"))

\* the loop over candidates (llm.py:61-67) on the result of json.loads for each
FirstParsed(rs) ==
  IF \E i \in 1..Len(rs) : rs[i].ok
    THEN rs[CHOOSE i \in 1..Len(rs) : rs[i].ok /\ \A j \in 1..(i - 1) : ~rs[j].ok]
    ELSE Raise("ValueError", {"No JSON payload found in LLM response"})

TryCandidates(cands) == FirstParsed([i \in 1..Len(cands) |-> json_loads(cands[i])])

\* llm.py:45-67 on the cleaned text
ParseCleaned(cleaned) == FirstOk(json_loads(cleaned), TryCandidates(Candidates(cleaned)))

\* llm._safe_json_parse
_safe_json_parse(text) == FirstOk(json_loads(text), ParseCleaned(Unfence(Strip(text))))

\* str(exc) of an exception whose message is one text
ExcText(exc) == CHOOSE m \in exc.msg : TRUE

\* a matching that tests the invalid-key keywords first: Category must differ
CategoryAuthFirst(upper) ==
  IF \/ Contains(upper, "API KEY") \/ Contains(upper, "INVALID")
     \/ Contains(upper, "401") \/ Contains(upper, "403")
    THEN "The API key appears to be invalid or expired. Please update the API key."
  ELSE IF Contains(upper, "RESOURCE_EXHAUSTED") \/ Contains(upper, "429")
    THEN "The AI service rate limit was exceeded. Please try again later."
  ELSE IF Contains(upper, "DEADLINE") \/ Contains(upper, "TIMEOUT") \/ Contains(upper, "504")
    THEN "The AI service timed out. Please try again in a moment."
  ELSE "The AI service is currently unavailable. Please try again later."

\* the category of llm._friendly_llm_error for the upper-cased text
Category(upper) ==
  IF Contains(upper, "RESOURCE_EXHAUSTED") \/ Contains(upper, "429")
    THEN "The AI service rate limit was exceeded. Please try again later."
  ELSE IF \/ Contains(upper, "API KEY") \/ Contains(upper, "INVALID")
          \/ Contains(upper, "401") \/ Contains(upper, "403")
    THEN "The API key appears to be invalid or expired. Please update the API key."
  ELSE IF Contains(upper, "DEADLINE") \/ Contains(upper, "TIMEOUT") \/ Contains(upper, "504")
    THEN "The AI service timed out. Please try again in a moment."
  ELSE "The AI service is currently unavailable. Please try again later."

\* llm._friendly_llm_error
_friendly_llm_error(exc) == Category(ToUpper(ExcText(exc)))

\* a prompt that embeds no invalid text: _repair_prompt must differ from it
RepairWithoutText(invalid_text, error) ==
  [kind |-> "repair", error |-> error, invalid_text |-> ""]

\* llm._repair_prompt: the fixed instructions around the error and the text
_repair_prompt(invalid_text, error) ==
  [kind |-> "repair", error |-> error, invalid_text |-> invalid_text]

RECURSIVE JoinStr(_, _)
\* sep.join(q)
JoinStr(q, sep) ==
  IF q = <<>> THEN ""
  ELSE IF Len(q) = 1 THEN q[1]
  ELSE q[1] \o sep \o JoinStr(Tail(q), sep)

\* one option line of llm._build_routes_context; distance_km is a float
OptionLine(opt) ==
  "- " \o opt.mode \o ": time " \o opt.estimated_travel_time
    \o ", distance " \o ToString(opt.distance_km \div 10) \o "." \o ToString(opt.distance_km % 10)
    \o " km, vehicles " \o JoinStr(opt.available_vehicles, ", ")
    \o ", cost INR " \o NumStr(opt.estimated_cost.min) \o "-" \o NumStr(opt.estimated_cost.max)

\* llm._build_routes_context
_build_routes_context(routes_by_leg) ==
  JoinStr([i \in 1..Len(routes_by_leg) |->
             JoinStr(<<"Leg: " \o routes_by_leg[i].leg_name>>
                       \o [j \in 1..Len(routes_by_leg[i].transport_options) |->
                             OptionLine(routes_by_leg[i].transport_options[j])],
                     "\n")],
          "\n")

\* str(d) of a datetime.date
Pad2(n) == IF n < 10 THEN "0" \o ToString(n) ELSE ToString(n)

DateStr(d) == ToString(d.y) \o "-" \o Pad2(d.m) \o "-" \o Pad2(d.d)

\* prompt_builder.build_prompt: the parts of the text that vary
build_prompt(source, destinations, budget, start_date, routes_context) ==
  [kind |-> "plan",
   source |-> source,
   destinations |-> destinations,
   budget |-> budget,
   start_date_section |->
     IF Truthy(start_date) THEN "Start Date: " \o DateStr(start_date)
     ELSE "Start Date: Not specified (do NOT assume seasons or weather)",
   routes_section |->
     IF Truthy(routes_context)
       THEN "ROUTE DATA (authoritative, use exactly):\n" \o routes_context.v
       ELSE "ROUTE DATA: Not available (you may estimate travel time and distance)."]

(***************************************************************************)
(* The session: the process environment, the places and the service's      *)
(* route facts, the requests the app passes, the model's outcomes          *)
(***************************************************************************)
\* calls of generate_travel_plan_json in one session
MaxCalls == 2

NoDate == None

Date(y, m, d) == [t |-> "date", y |-> y, m |-> m, d |-> d]

\* the arguments the app passes (app.py:236-242): budget is an int >= 1000
Requests ==
  {[source |-> "Delhi", destinations |-> <<"Agra">>, start_date |-> NoDate,
    budget |-> Whole(5000)],
   [source |-> "Delhi", destinations |-> <<"Agra", "Jaipur">>,
    start_date |-> Date(2026, 12, 24), budget |-> Whole(5000)]}

\* what the routing service knows of a leg: metres and seconds per mode
RouteFact(src, dst, mode) ==
  IF src = "Delhi" /\ dst = "Agra"
    THEN IF mode = "drive" THEN [distance |-> 233440, time |-> 12600]
         ELSE [distance |-> 195300, time |-> 8100]
    ELSE IF mode = "drive" THEN [distance |-> 238160, time |-> 15000]
         ELSE [distance |-> 241000, time |-> 16200]

GeocodeReplies ==
  {[kind |-> "ok"], [kind |-> "empty"], [kind |-> "status", code |-> 500],
   [kind |-> "network"], [kind |-> "malformed"]}

\* a route of 40 m, less than the 50 m that round to 0.1 km: the service
\* knows one such route, the transit route of the first leg
ShortRoutes(src, dst, mode) ==
  IF src = "Delhi" /\ dst = "Agra" /\ mode = "transit"
    THEN {[kind |-> "ok", distance |-> Num(40), time |-> Num(30)]}
    ELSE {}

RouteReplies(src, dst, mode) ==
  {[kind |-> "ok", distance |-> Num(RouteFact(src, dst, mode).distance),
                   time |-> Num(RouteFact(src, dst, mode).time)],
   [kind |-> "ok", distance |-> None, time |-> None],
   [kind |-> "status", code |-> 500], [kind |-> "empty"], [kind |-> "network"]}
    \cup ShortRoutes(src, dst, mode)

\* client.models.generate_content raising
TransportFailures ==
  {Raise("ServerError", {"503 UNAVAILABLE. The model is overloaded."}),
   Raise("ClientError", {"429 RESOURCE_EXHAUSTED. Quota exceeded."})}

\* response.text of a reply of the generative model
ModelTexts ==
  {CanonicalPlanText, FencedPlanText, LegacyPlanText, SourceSentinelText,
   DestinationSentinelText, NamedRoutesPlanText, ProseText, NumberText}

(***************************************************************************)
(* llm.generate_travel_plan_json as a state machine over the session       *)
(***************************************************************************)
VARIABLES
  environ,               \* os.environ: GEOAPIFY_API_KEY or None
  memory,                \* st.session_state.memory
  ncalls,                \* calls of generate_travel_plan_json so far
  pc,                    \* position in the running or last call
  status,                \* "idle", "running", "returned" or "raised"
  args,                  \* the arguments of the call
  routes_from_provider, data_source, provider_error,
  leg,                   \* 1-based index of the destination the loop is at
  geocoded,              \* places in the provider's _geocode cache
  prompt, attempt, last_error, travel_data,
  result,                \* the value returned or the exception raised
  attempts,              \* the model calls of this call: prompt, reply, outcome
  sleeps,                \* the time.sleep durations of this call
  mem0,                  \* memory when the call began
  outbound,              \* the HTTP calls of the provider in this call, in order
  nchats,                \* calls of chat_with_memory so far
  chat,                  \* the last call of chat_with_memory, or None
  probe,                 \* a function of the pipeline applied on its own
  page                   \* the run of the app's script, or None

vars ==
  <<environ, memory, ncalls, pc, status, args, routes_from_provider, data_source,
    provider_error, leg, geocoded, prompt, attempt, last_error, travel_data,
    result, attempts, sleeps, mem0, outbound, nchats, chat, probe, page>>

\* what generate_travel_plan_json has no access to
aside == <<nchats, chat, probe, page>>

\* memory.init_memory on a fresh session
init_memory ==
  [chat_history |-> <<>>, last_trip |-> None, generated_trips |-> <<>>,
   preferences |-> Dict(<<>>)]

\* no call of generate_travel_plan_json was made yet
NoCallYet ==
  /\ ncalls = 0
  /\ pc = "idle"
  /\ status = "idle"
  /\ args = None
  /\ routes_from_provider = None
  /\ data_source = None
  /\ provider_error = None
  /\ leg = 0
  /\ geocoded = {}
  /\ prompt = None
  /\ attempt = 0
  /\ last_error = None
  /\ travel_data = None
  /\ result = None
  /\ attempts = <<>>
  /\ sleeps = <<>>
  /\ mem0 = init_memory
  /\ outbound = <<>>

Init ==
  /\ environ \in {[GEOAPIFY_API_KEY |-> None], [GEOAPIFY_API_KEY |-> Str("key")]}
  /\ memory = init_memory
  /\ NoCallYet
  /\ nchats = 0
  /\ chat = None
  /\ probe = None
  /\ page = None

\* generate_travel_plan_json is entered with the arguments req and the
\* memory mem of the session (llm.py:219-231)
EnterWith(req, mem) ==
  /\ status # "running"
  /\ ncalls < MaxCalls
  /\ ncalls' = ncalls + 1
  /\ args' = req
  /\ status' = "running"
  /\ pc' = "construct"
  /\ routes_from_provider' = None
  /\ data_source' = None
  /\ provider_error' = None
  /\ leg' = 0
  /\ geocoded' = {}
  /\ prompt' = None
  /\ attempt' = 0
  /\ last_error' = None
  /\ travel_data' = None
  /\ result' = None
  /\ attempts' = <<>>
  /\ sleeps' = <<>>
  /\ mem0' = mem
  /\ outbound' = <<>>
  /\ memory' = mem
  /\ UNCHANGED environ

\* the same with the memory of the session as it is
Enter(req) == EnterWith(req, memory)

\* the app calls generate_travel_plan_json (llm.py:229-231)
Call(req) == Enter(req) /\ UNCHANGED aside

\* the handler of ProviderError, were it to keep the legs fetched so far
ProviderFailedKeepingLegs(exc) ==
  /\ provider_error' = Str(ExcText(exc))
  /\ pc' = "prompt"
  /\ UNCHANGED <<routes_from_provider, status, result>>

\* except ProviderError as exc (llm.py:244-246)
ProviderFailed(exc) ==
  /\ provider_error' = Str(ExcText(exc))
  /\ routes_from_provider' = None
  /\ pc' = "prompt"
  /\ UNCHANGED <<status, result>>

\* an exception that no handler of generate_travel_plan_json catches
Escapes(exc) ==
  /\ status' = "raised"
  /\ result' = exc
  /\ UNCHANGED pc

\* provider = GeoapifyProvider(); routes_from_provider = [] (llm.py:232-235)
ConstructProvider ==
  /\ status = "running" /\ pc = "construct"
  /\ \E r \in {ProviderInit(environ.GEOAPIFY_API_KEY)} :
       IF r.ok
         THEN /\ routes_from_provider' = List(<<>>)
              /\ leg' = 1
              /\ pc' = "legs"
              /\ UNCHANGED <<provider_error, status, result>>
         ELSE ProviderFailed(r) /\ UNCHANGED leg
  /\ UNCHANGED <<environ, memory, ncalls, args, data_source, geocoded, prompt, attempt,
                 last_error, travel_data, attempts, sleeps, mem0, outbound>>
  /\ UNCHANGED aside

\* leg_source of the loop (llm.py:235, 242)
LegSource == IF leg = 1 THEN args.source ELSE args.destinations[leg - 1]

\* the replies the service may give to _geocode(place): none is asked for a
\* place the lru_cache holds
GeocodeOutcomes(place, cache) ==
  IF place \in cache THEN {[kind |-> "ok"]} ELSE GeocodeReplies

\* the HTTP call of _geocode(place) with the result g: none for a place the
\* lru_cache holds (providers.py:40-49)
GeocodeCall(place, cache, g) ==
  IF place \in cache THEN <<>> ELSE <<[call |-> "geocode", what |-> place, ok |-> g.ok]>>

\* the HTTP call of _route for a mode of the leg with the result r
\* (providers.py:62-71)
RouteCall(src, dest, mode, r) ==
  <<[call |-> "route", what |-> src \o " -> " \o dest \o " by " \o mode, ok |-> r.ok]>>

\* the HTTP calls of the modes loop (providers.py:94-100): an exception of
\* _route that is no ProviderError leaves the loop
RouteCalls(src, dest, rd, rt) ==
  RouteCall(src, dest, "drive", rd)
    \o (IF ~rd.ok /\ rd.exc # "ProviderError" THEN <<>> ELSE RouteCall(src, dest, "transit", rt))

\* the HTTP calls of get_transport_options(src, dest) in order
\* (providers.py:85-98): a failed _geocode ends the call
LegCalls(src, dest, cache, gs, gd, rd, rt) ==
  GeocodeCall(src, cache, gs)
    \o (IF ~gs.ok THEN <<>>
        ELSE GeocodeCall(dest, cache \cup {src}, gd)
               \o (IF ~gd.ok THEN <<>> ELSE RouteCalls(src, dest, rd, rt)))

\* one pass of the loop over destinations (llm.py:236-242)
FetchLeg ==
  /\ status = "running" /\ pc = "legs" /\ leg <= Len(args.destinations)
  /\ \E src \in {LegSource} :
     \E dest \in {args.destinations[leg]} :
     \E gs \in GeocodeOutcomes(src, geocoded) :
     \E gd \in GeocodeOutcomes(dest, IF gs.kind = "ok" THEN geocoded \cup {src} ELSE geocoded) :
     \E rd \in RouteReplies(src, dest, "drive") :
     \E rt \in RouteReplies(src, dest, "transit") :
     \E r \in {get_transport_options(_geocode(src, gs), _geocode(dest, gd), <<rd, rt>>)} :
       /\ outbound' = outbound \o LegCalls(src, dest, geocoded, _geocode(src, gs),
                                           _geocode(dest, gd), _route(rd), _route(rt))
       /\ IF r.ok
            THEN /\ routes_from_provider' =
                      List(Append(routes_from_provider.v,
                                  [leg_name |-> src \o " -> " \o dest,
                                   transport_options |-> r.val]))
                 /\ leg' = leg + 1
                 /\ geocoded' = geocoded \cup {src, dest}
                 /\ UNCHANGED <<provider_error, pc, status, result>>
          ELSE IF r.exc = "ProviderError"
            THEN ProviderFailed(r) /\ UNCHANGED <<leg, geocoded>>
          ELSE Escapes(r)
                 /\ UNCHANGED <<routes_from_provider, provider_error, leg, geocoded>>
  /\ UNCHANGED <<environ, memory, ncalls, args, data_source, prompt, attempt,
                 last_error, travel_data, attempts, sleeps, mem0>>
  /\ UNCHANGED aside

\* the loop is over: data_source = "Geoapify routing" (llm.py:243)
RoutingDone ==
  /\ status = "running" /\ pc = "legs" /\ leg > Len(args.destinations)
  /\ data_source' = Str("Geoapify routing")
  /\ pc' = "prompt"
  /\ UNCHANGED <<environ, memory, ncalls, status, args, routes_from_provider,
                 provider_error, leg, geocoded, prompt, attempt, last_error,
                 travel_data, result, attempts, sleeps, mem0, outbound>>
  /\ UNCHANGED aside

\* routes_context (llm.py:248)
RoutesContext(routes) ==
  IF Truthy(routes) THEN Str(_build_routes_context(routes.v)) ELSE None

\* routes_context and the prompt (llm.py:248-259)
BuildPrompt ==
  /\ status = "running" /\ pc = "prompt"
  /\ prompt' = build_prompt(args.source, args.destinations, args.budget,
                            args.start_date, RoutesContext(routes_from_provider))
  /\ travel_data' = None
  /\ last_error' = None
  /\ attempt' = 0
  /\ pc' = "model"
  /\ UNCHANGED <<environ, memory, ncalls, status, args, routes_from_provider,
                 data_source, provider_error, leg, geocoded, result, attempts,
                 sleeps, mem0, outbound>>
  /\ UNCHANGED aside

\* a loop that allows a third pass: InRange must differ from it
InRangeOfThree(a) == a < 3

\* a loop over the model calls that has no last pass
InRangeForever(a) == TRUE

\* for attempt in range(2) (llm.py:260)
InRange(a) == a < 2

\* a wait that grows from 3.0 s: Backoff must differ from it
BackoffFromTwo(a) == 15 * (a + 2)

\* time.sleep(1.5 * (attempt + 1)), fixed-point seconds (llm.py:270)
Backoff(a) == 15 * (a + 1)

\* the handler of a failed model call gives up (llm.py:267)
GivesUp(a) == a = 1

\* raise RuntimeError(friendly) from exc (llm.py:268-269)
FriendlyError(exc) ==
  [ok |-> FALSE, exc |-> "RuntimeError", msg |-> {_friendly_llm_error(exc)}, cause |-> exc]

\* validate_travel_plan(parsed), unless parsing raised
ValidateParsed(parsed) == IF parsed.ok THEN validate_travel_plan(parsed.val) ELSE parsed

\* parsed = _safe_json_parse(raw_text); validate_travel_plan(parsed) (llm.py:274-275)
ParseAndValidate(raw_text) == ValidateParsed(_safe_json_parse(raw_text))

\* except (ValueError, ValidationError): pydantic's ValidationError and
\* json.JSONDecodeError are ValueErrors (llm.py:277)
IsCaught(exc) == exc.exc \in {"ValueError", "ValidationError", "JSONDecodeError"}

\* the record of one model call: the prompt sent, the text returned ("" when
\* the call raised), the outcome ("T": the call raised, "OK": a valid plan,
\* "V": a caught parse or validation error, "X": an error that is not caught),
\* the validated plan and the error
Attempt(p, text, outcome, plan, error) ==
  [prompt |-> p, text |-> text, outcome |-> outcome, plan |-> plan, error |-> error]

\* one pass of the loop over attempts (llm.py:260-280): the model is called with
\* the current prompt and raises, or returns a text that is parsed and validated
ModelAttempt ==
  /\ status = "running" /\ pc = "model" /\ InRange(attempt)
  /\ \E o \in TransportFailures \cup {Ok(t) : t \in ModelTexts} :
       IF ~o.ok
         THEN /\ attempts' = Append(attempts, Attempt(prompt, "", "T", None, o))
              /\ IF GivesUp(attempt)
                   THEN /\ status' = "raised"
                        /\ result' = FriendlyError(o)
                        /\ UNCHANGED <<attempt, sleeps, pc>>
                   ELSE /\ sleeps' = Append(sleeps, Backoff(attempt))
                        /\ attempt' = attempt + 1
                        /\ pc' = IF InRange(attempt + 1) THEN "model" ELSE "merge"
                        /\ UNCHANGED <<status, result>>
              /\ UNCHANGED <<prompt, last_error, travel_data>>
         ELSE \E r \in {ParseAndValidate(o.val)} :
                IF r.ok
                  THEN /\ travel_data' = r.val
                       /\ pc' = "merge"
                       /\ attempts' = Append(attempts, Attempt(prompt, o.val, "OK", r.val, None))
                       /\ UNCHANGED <<status, result, prompt, last_error, attempt, sleeps>>
                ELSE IF IsCaught(r)
                  THEN /\ last_error' = r
                       /\ prompt' = _repair_prompt(o.val, r)
                       /\ attempt' = attempt + 1
                       /\ pc' = IF InRange(attempt + 1) THEN "model" ELSE "merge"
                       /\ attempts' = Append(attempts, Attempt(prompt, o.val, "V", None, r))
                       /\ UNCHANGED <<status, result, travel_data, sleeps>>
                ELSE /\ Escapes(r)
                     /\ attempts' = Append(attempts, Attempt(prompt, o.val, "X", None, r))
                     /\ UNCHANGED <<prompt, last_error, travel_data, attempt, sleeps>>
  /\ UNCHANGED <<environ, memory, ncalls, args, routes_from_provider, data_source,
                 provider_error, leg, geocoded, mem0, outbound>>
  /\ UNCHANGED aside

\* a merge that keeps the model's routes: MergeProviderRoutes must differ from it
KeepModelRoutes(td, routes, destinations) == td

\* provider routes override the model's (llm.py:285-289)
MergeProviderRoutes(td, routes, destinations) ==
  IF Truthy(routes)
    THEN [td EXCEPT !.routes = routes.v, !.destinations = destinations]
    ELSE td

\* an annotation that always names the routing service: Annotate must differ
AnnotateAsRouted(td, source, error) == ("data_source" :> "Geoapify routing") @@ td

\* the data-source annotation (llm.py:291-295)
Annotate(td, source, error) ==
  IF Truthy(source) THEN ("data_source" :> source.v) @@ td
  ELSE IF Truthy(error)
    THEN ("data_source" :> "LLM estimates") @@ ("data_source_error" :> error.v) @@ td
  ELSE td

\* the summary stored as last_trip (llm.py:300-305)
LastTrip(req) ==
  [source |-> req.source,
   destinations |-> req.destinations,
   budget |-> req.budget,
   start_date |-> IF Truthy(req.start_date) THEN Str(DateStr(req.start_date)) ELSE None]

\* an update that keeps only the newest plan: UpdateMemory must differ from it
ReplaceTrips(mem, req, td) ==
  [mem EXCEPT !.last_trip = LastTrip(req), !.generated_trips = <<td>>]

\* the memory update, were it to start the conversation afresh
UpdateMemoryDroppingChat(mem, req, td) ==
  [mem EXCEPT !.last_trip = LastTrip(req),
              !.generated_trips = Append(mem.generated_trips, td),
              !.chat_history = <<>>]

\* the memory update, were it to store the plan without the summary of its
\* request
UpdateMemoryKeepingTrip(mem, req, td) ==
  [mem EXCEPT !.generated_trips = Append(mem.generated_trips, td)]

\* the memory update (llm.py:300-307)
UpdateMemory(mem, req, td) ==
  [mem EXCEPT !.last_trip = LastTrip(req),
              !.generated_trips = Append(mem.generated_trips, td)]

\* raise ValueError(f"LLM output invalid: {last_error}") (llm.py:283)
InvalidOutput(error) ==
  [ok |-> FALSE, exc |-> "ValueError", msg |-> {"LLM output invalid: "}, embedded |-> error]

\* after the loop (llm.py:282-309): raise when no attempt gave a plan, else
\* merge, annotate, update the memory and return
Merge ==
  /\ status = "running" /\ pc = "merge"
  /\ IF travel_data = None
       THEN /\ status' = "raised"
            /\ result' = InvalidOutput(last_error)
            /\ UNCHANGED <<memory, travel_data>>
       ELSE \E td \in {Annotate(MergeProviderRoutes(travel_data, routes_from_provider,
                                                    args.destinations),
                                data_source, provider_error)} :
              /\ travel_data' = td
              /\ memory' = UpdateMemory(memory, args, td)
              /\ status' = "returned"
              /\ result' = td
  /\ pc' = "done"
  /\ UNCHANGED <<environ, ncalls, args, routes_from_provider, data_source,
                 provider_error, leg, geocoded, prompt, attempt, last_error,
                 attempts, sleeps, mem0, outbound>>
  /\ UNCHANGED aside

Next ==
  \/ \E req \in Requests : Call(req)
  \/ ConstructProvider
  \/ FetchLeg
  \/ RoutingDone
  \/ BuildPrompt
  \/ ModelAttempt
  \/ Merge

Spec == Init /\ [][Next]_vars

(***************************************************************************)
(* llm.chat_with_memory: the suggestion shortcut, the chat prompt and the   *)
(* loop over the model calls                                               *)
(***************************************************************************)
\* calls of chat_with_memory in one session
MaxChats == 1

RECURSIVE LowerFrom(_, _)
LowerFrom(s, i) == IF i > Len(s) THEN "" ELSE LowerCh(Ch(s, i)) \o LowerFrom(s, i + 1)

\* str.lower()
ToLower(s) == LowerFrom(s, 1)

\* [a-zA-Z] and [a-zA-Z\s\-'] of the patterns of _extract_city
IsLetter(c) == IsLowerCh(c) \/ IsUpperCh(c)

IsCityCh(c) == IsLetter(c) \/ IsSpace(c) \/ c = "-" \/ c = "'"

RECURSIVE SkipSpace(_, _)
\* the position after the whitespace that starts at i (\s+ is greedy)
SkipSpace(s, i) == IF i <= Len(s) /\ IsSpace(Ch(s, i)) THEN SkipSpace(s, i + 1) ELSE i

RECURSIVE RunEnd(_, _)
\* the last position of the run of [a-zA-Z\s\-'] that starts at i, or i - 1
RunEnd(s, i) == IF i <= Len(s) /\ IsCityCh(Ch(s, i)) THEN RunEnd(s, i + 1) ELSE i - 1

\* group 1 of ([a-zA-Z][a-zA-Z\s\-']{2,}) matched at j, or "" when it
\* does not match there
GroupFrom(s, j) ==
  IF j <= Len(s) /\ IsLetter(Ch(s, j)) /\ RunEnd(s, j + 1) >= j + 2
    THEN SubSeq(s, j, RunEnd(s, j + 1))
    ELSE ""

\* group 1 of the pattern  kw\s+([a-zA-Z][a-zA-Z\s\-']{2,})  matched at i
\* with re.IGNORECASE, or "" when it does not match there
GroupAt(s, i, kw) ==
  IF /\ i + Len(kw) <= Len(s)
     /\ ToLower(SubSeq(s, i, i + Len(kw) - 1)) = kw
     /\ IsSpace(Ch(s, i + Len(kw)))
    THEN GroupFrom(s, SkipSpace(s, i + Len(kw)))
    ELSE ""

\* the keyword of kws that matches at i, if one does
MatchesAt(s, i, kws) == \E kw \in kws : GroupAt(s, i, kw) # ""

RECURSIVE SearchFrom(_, _, _)
\* re.search from position i on: group 1 of the leftmost match, or ""
\* without a match
SearchFrom(s, i, kws) ==
  IF i > Len(s) THEN ""
  ELSE IF MatchesAt(s, i, kws) THEN GroupAt(s, i, CHOOSE kw \in kws : GroupAt(s, i, kw) # "")
  ELSE SearchFrom(s, i + 1, kws)

\* the city of a match, or the city of the next pattern (llm.py:323-329)
CityOr(city, next) == IF city # "" THEN Str(city) ELSE next

\* city = match.group(1).strip(" .,!?") of the first pattern that matches
\* and gives a city (llm.py:318-329)
_extract_city(text) ==
  CityOr(StripChars(SearchFrom(text, 1, {"in", "at", "near", "around"}), " .,!?"),
         CityOr(StripChars(SearchFrom(text, 1, {"from"}), " .,!?"), None))

\* suggestion_intent (llm.py:316, 331-333)
suggestion_intent(user_input) ==
  \E k \in {"suggest", "recommend", "where to go", "places", "visit"} :
    Contains(ToLower(Strip(user_input)), k)

\* (memory.get("last_trip") or {}).get("source") (llm.py:336)
LastSource(mem) ==
  IF mem.last_trip = None THEN None ELSE Str(mem.last_trip.source)

RECURSIVE NormFrom(_, _)
\* the characters of _norm_place: lower case, a space for what is neither
\* alphanumeric nor whitespace (llm.py:115)
NormFrom(s, i) ==
  IF i > Len(s) THEN ""
  ELSE (IF IsLetter(Ch(s, i)) \/ Contains("0123456789", Ch(s, i)) THEN LowerCh(Ch(s, i))
        ELSE " ") \o NormFrom(s, i + 1)

RECURSIVE Squeeze(_)
\* " ".join(s.split()) of a stripped text of letters, digits and spaces
Squeeze(s) ==
  IF Len(s) < 2 THEN s
  ELSE IF Ch(s, 1) = " " /\ Ch(s, 2) = " " THEN Squeeze(SubSeq(s, 2, Len(s)))
  ELSE Ch(s, 1) \o Squeeze(SubSeq(s, 2, Len(s)))

\* llm._norm_place
_norm_place(value) == Squeeze(Strip(NormFrom(value, 1)))

\* the rows _load_curated_places reads from the places file of the
\* deployment: no file, or a file with these rows
CuratedPlaces ==
  {<<>>,
   <<[place |-> "Amber Fort", city |-> "Jaipur", state |-> "Rajasthan"],
     [place |-> "Taj Mahal", city |-> "Agra", state |-> "Uttar Pradesh"],
     [place |-> "Amber  fort", city |-> "Jaipur", state |-> "Rajasthan"]>>}

\* a curated row is local to the source (llm.py:158)
IsLocal(source_key, row) ==
  /\ source_key # ""
  /\ \/ source_key = _norm_place(row.city)
     \/ source_key = _norm_place(row.state)
     \/ Contains(_norm_place(row.place), source_key)

RECURSIVE Ranked(_, _, _, _), RankedWith(_, _, _, _, _)
\* the loop of llm.py:164-173 over the places not looked at yet
Ranked(places, seen, ranked, limit) ==
  IF places = <<>> THEN ranked
  ELSE RankedWith(places, _norm_place(Head(places)), seen, ranked, limit)

\* one pass of that loop for the first place and its key
RankedWith(places, key, seen, ranked, limit) ==
  IF key # "" /\ key \notin seen
    THEN IF Len(ranked) + 1 >= limit THEN Append(ranked, Head(places))
         ELSE Ranked(Tail(places), seen \cup {key}, Append(ranked, Head(places)), limit)
  ELSE IF Len(ranked) >= limit THEN ranked
  ELSE Ranked(Tail(places), seen, ranked, limit)

\* llm._prioritize_local_places: the local curated places, then the model's,
\* without repetitions, at most six
PlacesOfRows(rows) == [i \in 1..Len(rows) |-> rows[i].place]

LocalRows(source_key, curated) == SelectSeq(curated, LAMBDA row : IsLocal(source_key, row))

_prioritize_local_places(source, llm_places, curated) ==
  Ranked(PlacesOfRows(LocalRows(_norm_place(source), curated)) \o llm_places, {}, <<>>, 6)

\* q[:6]
FirstSix(q) == IF Len(q) > 6 THEN SubSeq(q, 1, 6) ELSE q

\* [str(x).strip() for x in data if str(x).strip()][:6] (llm.py:199-200)
PlaceNames(data) ==
  FirstSix(SelectSeq([i \in 1..Len(data) |-> Strip(Format(data[i]))], LAMBDA p : p # ""))

\* the first of the keys places, suggestions, destinations whose value is a
\* list (llm.py:203-207)
PlacesKey(data) ==
  IF Has(data, "places") /\ IsList(Get(data, "places")) THEN "places"
  ELSE IF Has(data, "suggestions") /\ IsList(Get(data, "suggestions")) THEN "suggestions"
  ELSE IF Has(data, "destinations") /\ IsList(Get(data, "destinations")) THEN "destinations"
  ELSE ""

\* the places suggest_places takes from the parsed reply (llm.py:198-208)
PlacesOf(data) ==
  IF IsList(data) THEN PlaceNames(data.v)
  ELSE IF IsDict(data) /\ PlacesKey(data) # "" THEN PlaceNames(Get(data, PlacesKey(data)).v)
  ELSE <<>>

\* one pass of the loop of suggest_places (llm.py:190-208): the places, or
\* the exception the pass raises; response.text or "[]" is parsed
PlacesParsed(data) == IF data.ok THEN Ok(PlacesOf(data.val)) ELSE data

PlacesReply(o) ==
  IF o.ok THEN PlacesParsed(_safe_json_parse(Format(PyOr(o.val, Str("[]"))))) ELSE o

\* the value a call of chat_with_memory or suggest_places leaves: the memory,
\* the value returned, the model calls made and the waits between them
Done(mem, returned, calls, waits) ==
  [memory |-> mem, returned |-> returned, calls |-> calls, sleeps |-> waits]

\* the same for a call that sent the chat prompt
Asked(mem, returned, calls, waits) ==
  [memory |-> mem, returned |-> returned, calls |-> calls, sleeps |-> waits, asked |-> TRUE]

\* llm.suggest_places for the outcomes o1, o2 of its model calls: every
\* exception of a pass is caught; [] after the second (llm.py:189-213)
SuggestedBy(p1, p2, o1, o2) ==
  IF p1.ok THEN Done(None, p1.val, <<o1>>, <<>>)
  ELSE IF p2.ok THEN Done(None, p2.val, <<o1, o2>>, <<Backoff(0)>>)
  ELSE Done(None, <<>>, <<o1, o2>>, <<Backoff(0)>>)

suggest_places(source, o1, o2) == SuggestedBy(PlacesReply(o1), PlacesReply(o2), o1, o2)

\* response_text of the suggestion shortcut (llm.py:340-343)
SuggestionText(city, places) ==
  IF places # <<>>
    THEN Str("Suggested places near " \o city \o ":\n- " \o JoinStr(FirstSix(places), "\n- "))
    ELSE Str("I could not fetch suggestions right now. Please try again in a moment.")

\* a call that records the assistant turn before the user turn: Recorded must
\* differ from it
RecordedReversed(mem, user_input, text) ==
  [mem EXCEPT !.chat_history = @ \o <<<<"assistant", text>>, <<"user", user_input>>>>]

\* the user turn and the assistant turn appended (llm.py:344-345, 398-401)
Recorded(mem, user_input, text) ==
  [mem EXCEPT !.chat_history = @ \o <<<<"user", user_input>>, <<"assistant", text>>>>]

\* the suggestion shortcut (llm.py:338-346) given what suggest_places did
SuggestedText(user_input, mem, text, s) ==
  Done(Recorded(mem, user_input, text), text, s.calls, s.sleeps)

Suggested(user_input, mem, city, s, curated) ==
  SuggestedText(user_input, mem,
                SuggestionText(city, _prioritize_local_places(city, s.returned, curated)), s)

\* chat_prompt (llm.py:348-381): the parts of the text that vary
ChatPrompt(user_input, mem) ==
  [kind |-> "chat", last_trip |-> mem.last_trip, chat_history |-> mem.chat_history,
   user_input |-> user_input]

\* a failure text without the contact fallback: Unavailable must differ
UnavailableWithoutContact(exc) == Str(_friendly_llm_error(exc))

\* f"{friendly} Please contact the author." (llm.py:393-394)
Unavailable(exc) == Str(_friendly_llm_error(exc) \o " Please contact the author.")

\* the loop over the model calls, were the user turn recorded before the
\* second failure returns
AskModelRecordingUser(user_input, mem, o1, o2) ==
  IF o1.ok THEN Asked(Recorded(mem, user_input, o1.val), o1.val, <<o1>>, <<>>)
  ELSE IF o2.ok
    THEN Asked(Recorded(mem, user_input, o2.val), o2.val, <<o1, o2>>, <<Backoff(0)>>)
  ELSE Asked([mem EXCEPT !.chat_history = Append(@, <<"user", user_input>>)],
             Unavailable(o2), <<o1, o2>>, <<Backoff(0)>>)

\* the loop over the model calls and what follows it (llm.py:383-403) for
\* the outcomes o1, o2 of the calls: response.text is recorded and returned;
\* the second failure returns before anything is recorded
AskModel(user_input, mem, o1, o2) ==
  IF o1.ok THEN Asked(Recorded(mem, user_input, o1.val), o1.val, <<o1>>, <<>>)
  ELSE IF o2.ok
    THEN Asked(Recorded(mem, user_input, o2.val), o2.val, <<o1, o2>>, <<Backoff(0)>>)
  ELSE Asked(mem, Unavailable(o2), <<o1, o2>>, <<Backoff(0)>>)

\* city of llm.py:336
CityFor(user_input, mem) == PyOr(_extract_city(user_input), LastSource(mem))

\* the city of the suggestion shortcut, or None when chat_with_memory goes on
\* to the chat prompt (llm.py:335-337)
ShortcutCity(user_input, mem) ==
  IF suggestion_intent(user_input) THEN CityFor(user_input, mem) ELSE None

\* llm.chat_with_memory from llm.py:337 on, for the city of the shortcut and
\* the outcomes o1, o2 of the model calls it makes
chat_with_memory(user_input, mem, city, o1, o2, curated) ==
  IF Truthy(city)
    THEN Suggested(user_input, mem, city.v, suggest_places(city.v, o1, o2), curated)
    ELSE AskModel(user_input, mem, o1, o2)

\* what the user types into the chat box (app.py:485-487)
ChatInputs ==
  {"what's the plan?", "Suggest places near Jaipur", "recommend places to visit"}

InsufficientContext == "I don't have enough trip information to answer that."

\* the outcomes of client.models.generate_content in a chat: response.text
\* of a reply to the chat prompt or to the prompt of suggest_places, or the
\* call raising
ChatOutcomes ==
  {Ok(Str(InsufficientContext)), Ok(Str("Your trip goes from Delhi to Agra.")), Ok(None),
   Ok(Str(PlacesText)), Ok(Str(PlacesObjectText)),
   Raise("ClientError", {"429 RESOURCE_EXHAUSTED. Quota exceeded."}),
   Raise("ServerError", {"504 Deadline Exceeded"})}

\* the app calls chat_with_memory(user_input, memory) when no call of
\* generate_travel_plan_json is running (app.py:485-488); at most limit
\* calls are made in the session
AskUpTo(mem, limit) ==
  /\ status # "running"
  /\ nchats < limit
  /\ \E user_input \in ChatInputs :
     \E city \in {ShortcutCity(user_input, mem)} :
     \E o1 \in ChatOutcomes :
     \E o2 \in ChatOutcomes :
     \E curated \in CuratedPlaces :
     \E r \in {chat_with_memory(user_input, mem, city, o1, o2, curated)} :
       /\ memory' = r.memory
       /\ chat' = [user_input |-> user_input, returned |-> r.returned,
                   calls |-> r.calls, sleeps |-> r.sleeps, memory0 |-> mem,
                   prompt |-> IF "asked" \in DOMAIN r THEN ChatPrompt(user_input, mem)
                              ELSE None]
  /\ nchats' = nchats + 1
  /\ UNCHANGED <<environ, ncalls, pc, status, args, routes_from_provider, data_source,
                 provider_error, leg, geocoded, prompt, attempt, last_error, travel_data,
                 result, attempts, sleeps, mem0, outbound, probe>>

\* the same within the bound of the session
Ask(mem) == AskUpTo(mem, MaxChats)

\* the app calls chat_with_memory with the memory of the session
\* (app.py:486-488)
Chat == Ask(memory) /\ UNCHANGED page

\* a session without the routing key: plans are generated from model
\* estimates, and the user chats
ChatInit == Init /\ environ.GEOAPIFY_API_KEY = None

ChatNext ==
  \/ \E req \in Requests : Call(req)
  \/ ConstructProvider
  \/ BuildPrompt
  \/ ModelAttempt
  \/ Merge
  \/ Chat

ChatSpec == ChatInit /\ [][ChatNext]_vars

(***************************************************************************)
(* The functions of the pipeline applied on their own to inputs drawn from *)
(* bounded sets: validate_travel_plan, _safe_json_parse and                *)
(* _friendly_llm_error                                                     *)
(***************************************************************************)
\* estimated_cost values of the raw plans: objects (valid, zero, min above
\* max, a negative bound, no currency) and bare numbers (500, 0, -50)
RawCosts ==
  {Dict([min |-> Num(1000), max |-> Num(2000), currency |-> Str("INR")]),
   DefaultCost,
   Dict([min |-> Num(3000), max |-> Num(2000), currency |-> Str("INR")]),
   Dict([min |-> Num(-1000), max |-> Num(2000), currency |-> Str("INR")]),
   Dict([min |-> Num(1000), max |-> Num(2000)]),
   Num(5000), Num(0), Num(-500)}

\* a transport option in the shape of the schema
RawOption(mode, cost) ==
  Dict([mode |-> mode, estimated_travel_time |-> Str("4 hr"), distance_km |-> Num(2330),
        available_vehicles |-> List(<<Str("Express")>>), estimated_cost |-> cost,
        route_summary |-> Str("Direct")])

\* the transport_options lists of the raw plans: one option in the shape of
\* the schema, bare mode names, a mixed list, an empty list
RawOptionLists ==
  {<<RawOption(Str("Train"), c)>> : c \in RawCosts}
    \cup {<<RawOption(Str(""), DefaultCost)>>,
          <<Str("Bus"), Str("Train")>>, <<Str("")>>,
          <<Str("Bus"), RawOption(Str("Train"), DefaultCost)>>, <<>>}

\* the routes of the raw plans: with leg_name and transport_options, with
\* transport_options only, and in the legacy shape with the fields of one
\* option on the route itself
RawRoutes ==
  {Dict([leg_name |-> Str("Delhi -> Agra"), transport_options |-> List(tos)]) :
     tos \in RawOptionLists}
    \cup {Dict([transport_options |-> List(tos)]) : tos \in RawOptionLists}
    \cup {Dict([route_name |-> Str("Bus"), estimated_cost |-> c]) : c \in RawCosts}
    \cup {Dict([from |-> Str("Delhi"), to |-> Str("Agra"), mode |-> Str("bus"),
                duration_hours |-> Num(45), estimated_cost |-> Num(5000)])}

\* a raw plan with these routes
RawPlan(routes) ==
  Dict([source |-> Str("Delhi"), destinations |-> List(<<Str("Agra")>>),
        budget |-> Num(50000), routes |-> List(routes),
        best_route_recommendation |-> Str("Train"),
        detailed_travel_plan |-> Dict([day_1 |-> Str("Taj Mahal")])])

\* routes in the legacy shape, by the names they carry: none, from and to,
\* their own leg_name, an empty leg_name beside from and to, from alone, and
\* an empty from
LegacyRoutes ==
  {Dict([route_name |-> Str("Bus")]),
   Dict([from |-> Str("Delhi"), to |-> Str("Agra"), mode |-> Str("Bus")]),
   Dict([leg_name |-> Str("Delhi to Agra"), mode |-> Str("Train")]),
   Dict([leg_name |-> Str(""), from |-> Str("Delhi"), to |-> Str("Agra"), mode |-> Str("Bus")]),
   Dict([from |-> Str("Delhi"), mode |-> Str("Bus")]),
   Dict([from |-> Str(""), to |-> Str("Agra"), mode |-> Str("Bus")])}

\* plans of one legacy route, and of two routes with a legacy route second
LegacyPlans ==
  {RawPlan(<<r>>) : r \in LegacyRoutes}
    \cup {RawPlan(<<first, r>>) :
            first \in {Dict([leg_name |-> Str("Delhi -> Agra"),
                             transport_options |->
                               List(<<RawOption(Str("Train"), DefaultCost)>>)]),
                       Dict([route_name |-> Str("Cab")])},
            r \in LegacyRoutes}

\* a field that the plan does not have
Absent == [t |-> "absent"]

\* a plan without destinations and destination
PlanWithoutDestinations ==
  Dict([source |-> Str("Delhi"), budget |-> Num(50000),
        routes |-> List(<<Dict([leg_name |-> Str("Delhi -> Agra"),
                                transport_options |->
                                  List(<<RawOption(Str("Train"), DefaultCost)>>)])>>),
        best_route_recommendation |-> Str("Train"),
        detailed_travel_plan |-> Dict([day_1 |-> Str("Taj Mahal")])])

\* the plan with this destinations field, unless ds is Absent
WithDestinations(p, ds) == IF ds = Absent THEN p ELSE Put(p, "destinations", ds)

\* the plan with this destination field, unless d is Absent
WithDestination(p, d) == IF d = Absent THEN p ELSE Put(p, "destination", d)

\* plans by their destinations (absent, one, two, none) and their
\* destination (absent, a place, another place, empty, null)
DestinationPlans ==
  {WithDestination(WithDestinations(PlanWithoutDestinations, ds), d) :
     ds \in {Absent, List(<<Str("Agra")>>), List(<<Str("Agra"), Str("Jaipur")>>), List(<<>>)},
     d \in {Absent, Str("Agra"), Str("Goa"), Str(""), None}}

\* the raw plans validate_travel_plan is applied to: one route of each kind,
\* a plan with the data-source annotation of generate_travel_plan_json, a
\* plan with a single destination field, and a plan of two legacy routes
RawPlans ==
  {RawPlan(<<r>>) : r \in RawRoutes}
    \cup LegacyPlans
    \cup DestinationPlans
    \cup {Put(RawPlan(<<Dict([leg_name |-> Str("Delhi -> Agra"),
                              transport_options |->
                                List(<<RawOption(Str("Train"), DefaultCost)>>)])>>),
              "data_source", Str("LLM estimates")),
          Dict([source |-> Str("Delhi"), destination |-> Str("Agra"), budget |-> Num(50000),
                routes |-> List(<<Dict([route_name |-> Str("Bus")])>>),
                best_route_recommendation |-> Str("Bus"),
                detailed_travel_plan |-> Dict([day_1 |-> Str("Taj Mahal")])]),
          RawPlan(<<Dict([route_name |-> Str("Bus"), estimated_cost |-> Num(5000)]),
                    Dict([route_name |-> Str("Cab"), estimated_cost |-> Num(30000)])>>)}

\* the dict plan.model_dump() returned, as the argument of a further call:
\* the values of the dumped model as Python values
DumpedCost(c) ==
  Dict([min |-> Num(c.min), max |-> Num(c.max), currency |-> Str(c.currency)])

DumpedOption(o) ==
  Dict([mode |-> Str(o.mode), estimated_travel_time |-> Str(o.estimated_travel_time),
        distance_km |-> Num(o.distance_km),
        available_vehicles |->
          List([i \in 1..Len(o.available_vehicles) |-> Str(o.available_vehicles[i])]),
        estimated_cost |-> DumpedCost(o.estimated_cost),
        route_summary |-> Str(o.route_summary)])

DumpedRoute(r) ==
  Dict([leg_name |-> Str(r.leg_name),
        transport_options |->
          List([i \in 1..Len(r.transport_options) |-> DumpedOption(r.transport_options[i])])])

DumpedPlan(p) ==
  Dict([source |-> Str(p.source),
        destinations |-> List([i \in 1..Len(p.destinations) |-> Str(p.destinations[i])]),
        budget |-> Num(p.budget),
        routes |-> List([i \in 1..Len(p.routes) |-> DumpedRoute(p.routes[i])]),
        best_route_recommendation |-> Str(p.best_route_recommendation),
        detailed_travel_plan |->
          Dict([k \in DOMAIN p.detailed_travel_plan |-> Str(p.detailed_travel_plan[k])])])

\* the fenced rendering of the JSON text v, with a language tag or without
Rendering(v, tag) == Fence \o tag \o "\n" \o v \o "\n" \o Fence

\* the JSON texts that are rendered in a fence: objects, one with the key
\* "json", an array and a number
FencedValues == {SmallObjectText, JsonKeyText, PlacesText, NumberText}

\* every fenced rendering of these texts
FencedRenderings ==
  {[text |-> Rendering(v, tag), of |-> v] : v \in FencedValues, tag \in {"", "json"}}

\* the texts _safe_json_parse is applied to
ParseTexts ==
  {SmallObjectText, " \n" \o SmallObjectText \o "\n", ProseFencedText,
   Fence \o "json\n" \o SmallObjectText \o "\n" \o Fence,
   Fence \o "\n" \o SmallObjectText \o "\n" \o Fence,
   FencedJsonKeyText, ProseArrayText, BracesThenArrayText, ProseText, NumberText,
   "[]", FencedPlanText}
    \cup {r.text : r \in FencedRenderings}

\* the exceptions _friendly_llm_error is applied to, by their texts
ErrorTexts ==
  {"429 RESOURCE_EXHAUSTED. Quota exceeded.", "resource_exhausted", "Too many requests (429)",
   "API key not valid. Please pass a valid API key.", "invalid argument", "401 Unauthorized",
   "403 PERMISSION_DENIED", "Deadline Exceeded", "Read timeout", "504 Gateway Timeout",
   "429 after timeout with an invalid api key", "Timeout: 401", "timeout, then 429",
   "503 UNAVAILABLE. The model is overloaded.", "Connection reset by peer", ""}

\* a function and its argument, before the call
Applied(fn, arg) == [fn |-> fn, arg |-> arg]

\* the record of a call and what it returned or raised
Returned(p, out) == [fn |-> p.fn, arg |-> p.arg, out |-> out]

\* the record of a second call, on what the first returned
ReturnedAgain(p, again) == [fn |-> p.fn, arg |-> p.arg, out |-> p.out, again |-> again]

\* the answers of the routing service to one call of get_transport_options:
\* also a route that rounds to 1.2 km, one of 40 m and one without time
LegRouteReplies(mode) ==
  RouteReplies("Delhi", "Agra", mode)
    \cup {[kind |-> "ok", distance |-> Num(1250), time |-> Num(600)],
          [kind |-> "ok", distance |-> Num(40), time |-> Num(30)],
          [kind |-> "ok", distance |-> Num(233440), time |-> Num(0)]}

\* the answers of the services to the HTTP calls of one call of
\* get_transport_options("Delhi", "Agra")
LegReplies ==
  [gs : GeocodeReplies, gd : GeocodeReplies,
   rd : LegRouteReplies("drive"), rt : LegRouteReplies("transit")]

FuncInit ==
  /\ environ = [GEOAPIFY_API_KEY |-> None]
  /\ memory = init_memory
  /\ NoCallYet
  /\ nchats = 0
  /\ chat = None
  /\ page = None
  /\ probe \in {Applied("validate_travel_plan", p) : p \in RawPlans}
                \cup {Applied("_safe_json_parse", t) : t \in ParseTexts}
                \cup {Applied("_friendly_llm_error", Raise("ServerError", {t})) : t \in ErrorTexts}
                \cup {Applied("get_transport_options", r) : r \in LegReplies}

\* what no function of this section reads or writes
session ==
  <<environ, memory, ncalls, pc, status, args, routes_from_provider, data_source,
    provider_error, leg, geocoded, prompt, attempt, last_error, travel_data,
    result, attempts, sleeps, mem0, outbound, nchats, chat, page>>

\* validate_travel_plan(data)
Validate ==
  /\ probe.fn = "validate_travel_plan" /\ "out" \notin DOMAIN probe
  /\ probe' = Returned(probe, validate_travel_plan(probe.arg))
  /\ UNCHANGED session

\* validate_travel_plan(validate_travel_plan(data)), when the first call
\* returned
ValidateAgain ==
  /\ probe.fn = "validate_travel_plan"
  /\ "out" \in DOMAIN probe /\ "again" \notin DOMAIN probe
  /\ probe.out.ok
  /\ probe' = ReturnedAgain(probe, validate_travel_plan(DumpedPlan(probe.out.val)))
  /\ UNCHANGED session

\* _safe_json_parse(text)
Parse ==
  /\ probe.fn = "_safe_json_parse" /\ "out" \notin DOMAIN probe
  /\ probe' = Returned(probe, _safe_json_parse(probe.arg))
  /\ UNCHANGED session

\* _friendly_llm_error(exc)
Friendly ==
  /\ probe.fn = "_friendly_llm_error" /\ "out" \notin DOMAIN probe
  /\ probe' = Returned(probe, _friendly_llm_error(probe.arg))
  /\ UNCHANGED session

\* provider.get_transport_options("Delhi", "Agra") for the answers of the
\* services
Options ==
  /\ probe.fn = "get_transport_options" /\ "out" \notin DOMAIN probe
  /\ probe' = Returned(probe, get_transport_options(_geocode("Delhi", probe.arg.gs),
                                                    _geocode("Agra", probe.arg.gd),
                                                    <<probe.arg.rd, probe.arg.rt>>))
  /\ UNCHANGED session

FuncNext == Validate \/ ValidateAgain \/ Parse \/ Friendly \/ Options

FuncSpec == FuncInit /\ [][FuncNext]_vars

(***************************************************************************)
(* app.py: one run of the script from the sidebar inputs to the call of    *)
(* generate_travel_plan_json and the display of its outcome                *)
(***************************************************************************)
\* the sidebar inputs of a run: the requests, and a request without source
AppInputs ==
  Requests \cup {[source |-> " ", destinations |-> <<"Agra">>, start_date |-> NoDate,
                  budget |-> Whole(5000)]}

\* what the geocoder answers for a place: a place in India, a place abroad,
\* or no place
PlaceReplies == {Ok("in"), Ok("fr"), Raise("ProviderError", {"Location not found"})}

\* provider.geocode_place(place) for the answer of the geocoder: the country
\* code of the place, or ProviderError
geocode_place(place, reply) == reply

\* the runs of the script that a session of the model makes
MaxRuns == 2

\* the runs of the script so far
Runs == IF page = None THEN 0 ELSE page.run

\* the run ends here: what it showed last (st.stop, or the end of the script)
Ended(inputs, generate_btn, outcome, message) ==
  [inputs |-> inputs, generate_btn |-> generate_btn, outcome |-> outcome,
   message |-> message, run |-> Runs + 1]

\* the call of the run is over: what the run shows for it
Shown(outcome, message) == [page EXCEPT !.outcome = outcome, !.message = message]

\* the places of the inputs, the source first
PlacesOfInputs(inputs) == <<inputs.source>> \o inputs.destinations

\* the most destinations of the inputs
MaxPlaces == 3

\* provider = GeoapifyProvider(); the places are geocoded (app.py:200-210):
\* "skipped" when source or destinations are blank, the ProviderError of the
\* constructor or of a place, else whether a place is outside India
ValidatePlaces(inputs, key, replies) ==
  IF ~(inputs.destinations # <<>> /\ Strip(inputs.source) # "") THEN Ok("skipped")
  ELSE IF ~ProviderInit(key).ok THEN ProviderInit(key)
  ELSE IF \E i \in 1..Len(PlacesOfInputs(inputs)) :
            ~geocode_place(PlacesOfInputs(inputs)[i], replies[i]).ok
    THEN Raise("ProviderError", {"Location not found"})
  ELSE IF \E i \in 1..Len(PlacesOfInputs(inputs)) :
            geocode_place(PlacesOfInputs(inputs)[i], replies[i]).val # "in"
    THEN Ok("international")
  ELSE Ok("india")

\* init_memory, were it to create the memory anew in every run
FreshMemory(session_memory) == init_memory

\* memory.init_memory on the session: session_memory is
\* st.session_state.memory, None when the session has none (memory.py:8-14)
EnsureMemory(session_memory) ==
  IF session_memory = None THEN init_memory ELSE session_memory

\* the run does not call generate_travel_plan_json
NoGeneration ==
  UNCHANGED <<environ, ncalls, pc, status, args, routes_from_provider, data_source,
              provider_error, leg, geocoded, prompt, attempt, last_error, travel_data,
              result, attempts, sleeps, mem0, outbound>>

\* one run of the script up to the call of generate_travel_plan_json
\* (app.py:164-247): init_memory; then the run stops with an error when the
\* places cannot be validated; with the button pressed it stops for blank
\* inputs and for travel abroad, else it calls generate_travel_plan_json
Rerun ==
  /\ status # "running"
  /\ Runs < MaxRuns
  /\ \E inputs \in AppInputs :
     \E generate_btn \in BOOLEAN :
     \E replies \in [1..MaxPlaces -> PlaceReplies] :
     \E v \in {ValidatePlaces(inputs, environ.GEOAPIFY_API_KEY, replies)} :
       IF ~v.ok
         THEN /\ page' = Ended(inputs, generate_btn, "stopped",
                               "Unable to validate location. Please try a more specific place name.")
              /\ memory' = EnsureMemory(memory)
              /\ NoGeneration
       ELSE IF ~generate_btn
         THEN /\ page' = Ended(inputs, generate_btn, "idle", "")
              /\ memory' = EnsureMemory(memory)
              /\ NoGeneration
       ELSE IF v.val = "skipped"
         THEN /\ page' = Ended(inputs, generate_btn, "stopped",
                               "Please enter a valid source and at least one destination.")
              /\ memory' = EnsureMemory(memory)
              /\ NoGeneration
       ELSE IF v.val = "international"
         THEN /\ page' = Ended(inputs, generate_btn, "stopped",
                               "Sorry, we don't support international travels")
              /\ memory' = EnsureMemory(memory)
              /\ NoGeneration
       ELSE /\ EnterWith(inputs, EnsureMemory(memory))
            /\ page' = Ended(inputs, generate_btn, "generating", "Planning your journey...")
  /\ UNCHANGED <<nchats, chat, probe>>

\* the sidebar of a run without source and destinations
BlankInputs ==
  [source |-> "", destinations |-> <<>>, start_date |-> NoDate, budget |-> Whole(1000)]

\* one run of the script with a message in the chat input (app.py:164,
\* 485-488): init_memory, no place to validate, then chat_with_memory.
\* chat_with_memory reads no key: these runs are explored in the sessions
\* without GEOAPIFY_API_KEY
RerunChat ==
  /\ environ.GEOAPIFY_API_KEY = None
  /\ Runs < MaxRuns
  /\ Ask(EnsureMemory(memory))
  /\ page' = Ended(BlankInputs, FALSE, "chat", "")

\* the call returned or raised (app.py:248-259): the error is shown and the
\* run stops, or the plan is displayed
Show ==
  /\ page # None /\ page.outcome = "generating"
  /\ status \in {"returned", "raised"}
  /\ page' = IF status = "raised"
               THEN Shown("stopped", "Failed to generate plan: ")
             ELSE IF "error" \in DOMAIN result
               THEN Shown("stopped", result.error)
             ELSE Shown("plan", "")
  /\ UNCHANGED <<environ, memory, ncalls, pc, status, args, routes_from_provider,
                 data_source, provider_error, leg, geocoded, prompt, attempt,
                 last_error, travel_data, result, attempts, sleeps, mem0, outbound, nchats, chat, probe>>

AppNext ==
  \/ Rerun
  \/ RerunChat
  \/ Show
  \/ ConstructProvider
  \/ FetchLeg
  \/ RoutingDone
  \/ BuildPrompt
  \/ ModelAttempt
  \/ Merge

\* a session before the first run of the script: st.session_state holds no
\* memory
AppInit ==
  /\ environ \in {[GEOAPIFY_API_KEY |-> None], [GEOAPIFY_API_KEY |-> Str("key")]}
  /\ memory = None
  /\ NoCallYet
  /\ nchats = 0
  /\ chat = None
  /\ probe = None
  /\ page = None

\* the session as the app drives it
AppSpec == AppInit /\ [][AppNext]_vars

(***************************************************************************)
(* The session under the scheduling of the interpreter: a call that is     *)
(* running takes its next step                                             *)
(***************************************************************************)
\* the calls of generate_travel_plan_json in a session of this section
MaxLiveCalls == 1

\* the steps of a running call of generate_travel_plan_json
Running ==
  \/ ConstructProvider
  \/ FetchLeg
  \/ RoutingDone
  \/ BuildPrompt
  \/ ModelAttempt
  \/ Merge

\* the app calls generate_travel_plan_json
LiveCall == ncalls < MaxLiveCalls /\ \E req \in Requests : Call(req)

\* the app calls chat_with_memory, which reads no key: its calls are
\* explored in the sessions without GEOAPIFY_API_KEY, whose plans do not
\* vary with the answers of the routing service
LiveChat == environ.GEOAPIFY_API_KEY = None /\ Chat

LiveNext ==
  \/ LiveCall
  \/ LiveChat
  \/ ConstructProvider
  \/ FetchLeg
  \/ RoutingDone
  \/ BuildPrompt
  \/ ModelAttempt
  \/ Merge

\* every HTTP call and every model call returns or raises, so the
\* interpreter takes the next step of a running call
LiveSpec == Init /\ [][LiveNext]_vars /\ WF_vars(Running)


(***************************************************************************)
(* A conversation: a keyless session in which generate_travel_plan_json    *)
(* and chat_with_memory are called one after the other, in any order       *)
(***************************************************************************)
\* calls of either function in a conversation
MaxTurns == 2

\* the user asks for a plan (app.py:229-247)
TalkCall == ncalls + nchats < MaxTurns /\ \E req \in Requests : Call(req)

\* the user sends a message (app.py:485-488)
Talk == ncalls + nchats < MaxTurns /\ AskUpTo(memory, MaxTurns) /\ UNCHANGED page

TalkNext ==
  \/ TalkCall
  \/ ConstructProvider
  \/ BuildPrompt
  \/ ModelAttempt
  \/ Merge
  \/ Talk

TalkSpec == ChatInit /\ [][TalkNext]_vars
(***************************************************************************)
(* Properties of generate_travel_plan_json                                 *)
(***************************************************************************)
\* the last model call of the running or last call of generate_travel_plan_json
LastAttempt == attempts[Len(attempts)]

\* the name of the i-th leg of the request: source -> d1, d1 -> d2, ...
RequestLegName(i) ==
  (IF i = 1 THEN args.source ELSE args.destinations[i - 1]) \o " -> " \o args.destinations[i]

\* C1: every plan returned for a request with N destinations has exactly N
\* routes, each with at least one transport option, and N destinations, with
\* or without provider routing.
C1_PlanMatchesRequestLegs ==
  status = "returned" =>
    /\ Len(result.routes) = Len(args.destinations)
    /\ \A i \in 1..Len(result.routes) : Len(result.routes[i].transport_options) >= 1
    /\ Len(result.destinations) = Len(args.destinations)

\* C2: when the provider answered for every leg and generation succeeds, the
\* returned routes are the provider's legs, one per consecutive pair of the
\* request in order, the destinations are the request's, data_source is
\* "Geoapify routing" and there is no data_source_error.
C2_ProviderRoutesOverride ==
  (status = "returned" /\ IsStr(data_source)) =>
    /\ result.routes = routes_from_provider.v
    /\ Len(result.routes) = Len(args.destinations)
    /\ \A i \in 1..Len(result.routes) :
         /\ result.routes[i].leg_name = RequestLegName(i)
         /\ result.routes[i].transport_options # <<>>
         /\ \A j \in 1..Len(result.routes[i].transport_options) :
              result.routes[i].transport_options[j].mode \in {"Driving", "Transit"}
    /\ result.destinations = args.destinations
    /\ "data_source" \in DOMAIN result
    /\ result.data_source = "Geoapify routing"
    /\ "data_source_error" \notin DOMAIN result

\* C2 happens: a two-leg request is answered from provider routes although the
\* model proposed other routes and destinations.
C2_Witness ==
  /\ status = "returned" /\ IsStr(data_source)
  /\ Len(args.destinations) = 2
  /\ LastAttempt.plan.routes # result.routes
  /\ LastAttempt.plan.destinations # result.destinations

\* the texts of the ProviderErrors that leave the routing step
ProviderFailureTexts ==
  {"GEOAPIFY_API_KEY is not set", "Geoapify geocoding failed (500)",
   "Insufficient route data from provider"}
    \cup {"Location not found: " \o p : p \in {"Delhi", "Agra", "Jaipur"}}

\* C3: when the provider raised ProviderError and generation succeeds, the
\* returned plan has data_source "LLM estimates", a non-empty
\* data_source_error that is the provider's failure text, and the routes of
\* the model's validated plan.
C3_ProviderErrorAnnotated ==
  (status = "returned" /\ IsStr(provider_error)) =>
    /\ "data_source" \in DOMAIN result
    /\ result.data_source = "LLM estimates"
    /\ "data_source_error" \in DOMAIN result
    /\ result.data_source_error # ""
    /\ result.data_source_error = provider_error.v
    /\ result.data_source_error \in ProviderFailureTexts
    /\ result.routes = LastAttempt.plan.routes

\* C3 happens: the provider fails on the second leg of a request and a plan
\* is returned.
C3_Witness ==
  /\ status = "returned" /\ IsStr(provider_error)
  /\ provider_error.v = "Location not found: Jaipur"
  /\ ~IsStr(data_source)

\* C4: the model is called at most twice in one call of
\* generate_travel_plan_json, whatever failures interleave.
C4_AtMostTwoModelCalls == Len(attempts) <= 2

\* C4 happens: a transport failure, then an invalid reply, and the call is
\* over after two model calls.
C4_Witness ==
  /\ status = "raised"
  /\ Len(attempts) = 2
  /\ attempts[1].outcome = "T"
  /\ attempts[2].outcome = "V"

\* the error sentinel objects of the prompt
SentinelTexts == {SourceSentinelText, DestinationSentinelText}

\* C5: a reply that is an error sentinel object ends the call at once: the
\* sentinel is returned as it is, it is not validated (so no validation error
\* is recorded for it), no further model call follows and nothing is raised.
C5_SentinelReturnedAsIs ==
  \A i \in 1..Len(attempts) :
    attempts[i].text \in SentinelTexts =>
      /\ i = Len(attempts)
      /\ attempts[i].outcome # "V"
      /\ status = "returned"
      /\ result = JsonValue[attempts[i].text]

\* the repair prompt for the i-th model call of this call
RepairFor(i) ==
  [kind |-> "repair", error |-> attempts[i].error, invalid_text |-> attempts[i].text]

ExpectedCategory(exc) ==
  IF exc.exc = "ClientError"
    THEN "The AI service rate limit was exceeded. Please try again later."
    ELSE "The AI service is currently unavailable. Please try again later."

\* C7: a transport failure of the first model call is followed by one wait of
\* 1.5 s and then the second call with the same prompt; no wait follows the
\* final call or a parse/validation failure; the call fails with the friendly
\* error exactly when its final model call raised, and the error carries the
\* category of that exception.
C7_BackoffThenSecondAttempt ==
  /\ sleeps = (IF attempts # <<>> /\ attempts[1].outcome = "T" THEN <<15>> ELSE <<>>)
  /\ (Len(attempts) = 1 /\ attempts[1].outcome = "T") =>
       status = "running" /\ pc = "model" /\ attempt = 1 /\ prompt = attempts[1].prompt
  /\ (attempts # <<>> /\ LastAttempt.outcome = "T" /\ Len(attempts) = 2) =>
       /\ status = "raised"
       /\ result.exc = "RuntimeError"
       /\ result.cause = LastAttempt.error
       /\ result.msg = {ExpectedCategory(LastAttempt.error)}
  /\ (status = "raised" /\ result.exc = "RuntimeError") =>
       Len(attempts) = 2 /\ LastAttempt.outcome = "T"

\* C7 happens: both model calls raise, one wait was made, and the call fails
\* with the rate-limit category.
C7_Witness ==
  /\ status = "raised"
  /\ Len(attempts) = 2
  /\ attempts[1].outcome = "T"
  /\ attempts[2].outcome = "T"
  /\ sleeps = <<15>>
  /\ result.msg = {"The AI service rate limit was exceeded. Please try again later."}

\* C8: no failure of the routing provider makes generate_travel_plan_json
\* fail: the call never ends with an exception in its routing step.
C8_ProviderFailureNeverFatal ==
  ~(status = "raised" /\ pc \in {"construct", "legs"})

\* C9: a model reply that is not a valid plan is always handled as a
\* parse/schema failure, and a call that fails after its routing step fails
\* with one of the generator's own errors.
C9_InvalidOutputIsSchemaFailure ==
  /\ \A i \in 1..Len(attempts) : attempts[i].outcome # "X"
  /\ (status = "raised" /\ pc \notin {"construct", "legs"}) =>
       result.exc \in {"RuntimeError", "ValueError"}

\* the summary of the running request: the start date as text or null
RequestSummary ==
  [source |-> args.source,
   destinations |-> args.destinations,
   budget |-> args.budget,
   start_date |-> IF args.start_date = Date(2026, 12, 24) THEN Str("2026-12-24") ELSE None]

\* C10, at the return: last_trip is the summary of this request and
\* generated_trips is its value when the call began with the returned plan
\* appended.
MemoryRecordsTrip ==
  status = "returned" =>
    /\ memory.last_trip = RequestSummary
    /\ memory.generated_trips = Append(mem0.generated_trips, result)

\* C10, across calls: generated_trips changes only in the step that returns a
\* plan, and then by that plan appended.
TripsAppendOnly ==
  memory'.generated_trips =
    IF status = "running" /\ status' = "returned"
      THEN Append(memory.generated_trips, result')
      ELSE memory.generated_trips

\* C10: after every successful call last_trip is the summary of the request
\* and generated_trips is its previous value with the returned plan appended;
\* across calls generated_trips is append-only and grows by exactly one per
\* successful call.
C10_MemoryUpdated == []MemoryRecordsTrip /\ [][TripsAppendOnly]_vars

\* C10 happens: a second successful call overwrites last_trip and appends a
\* second, different plan.
C10_Witness ==
  /\ status = "returned"
  /\ Len(memory.generated_trips) = 2
  /\ memory.generated_trips[1] # memory.generated_trips[2]
  /\ memory.last_trip # mem0.last_trip
  /\ IsStr(memory.last_trip.start_date)

(***************************************************************************)
(* Properties of chat_with_memory                                          *)
(***************************************************************************)
\* the last model call of the last call of chat_with_memory
LastChatCall == chat.calls[Len(chat.calls)]

\* the last call of chat_with_memory sent the chat prompt and the model replied
ModelAnswered == chat # None /\ chat.prompt # None /\ LastChatCall.ok

ExpectedUnavailable(exc) ==
  IF exc.exc = "ClientError"
    THEN Str("The AI service rate limit was exceeded. Please try again later."
               \o " Please contact the author.")
    ELSE Str("The AI service timed out. Please try again in a moment."
               \o " Please contact the author.")

\* C12: chat_with_memory returns a value whatever the model calls do: it
\* makes at most two model calls, the second only after the first failed and
\* one wait of 1.5 s; when both calls for the chat prompt fail it returns the
\* category message of the second failure followed by "Please contact the
\* author.", and nothing is recorded.
C12_ChatNeverRaises ==
  chat # None =>
    /\ Len(chat.calls) \in {1, 2}
    /\ chat.returned.t \in {"str", "none"}
    /\ (Len(chat.calls) = 2) => (~chat.calls[1].ok \/ chat.prompt = None)
    /\ chat.sleeps = (IF Len(chat.calls) = 2 THEN <<15>> ELSE <<>>)
    /\ (chat.prompt # None /\ ~chat.calls[1].ok) => Len(chat.calls) = 2
    /\ (chat.prompt # None /\ ~LastChatCall.ok) =>
         /\ Len(chat.calls) = 2
         /\ chat.returned = ExpectedUnavailable(LastChatCall)
         /\ memory.chat_history = chat.memory0.chat_history

\* C12 happens: both model calls for the chat prompt fail, the first with a
\* rate limit and the second with a timeout, and the timeout message is
\* returned.
C12_Witness ==
  /\ chat # None
  /\ chat.prompt # None
  /\ Len(chat.calls) = 2
  /\ chat.calls[1].exc = "ClientError"
  /\ ~LastChatCall.ok
  /\ chat.returned =
       Str("The AI service timed out. Please try again in a moment. Please contact the author.")

\* C13: a chat about the plan with no memory context (last_trip null, empty
\* chat_history) returns the insufficient-context sentence whatever the model
\* replies.
C13_InsufficientContextReply ==
  (/\ ModelAnswered
   /\ chat.user_input = "what's the plan?"
   /\ chat.memory0.last_trip = None
   /\ chat.memory0.chat_history = <<>>) =>
    chat.returned = Str(InsufficientContext)

(***************************************************************************)
(* Properties of validate_travel_plan, _safe_json_parse and                *)
(* _friendly_llm_error                                                     *)
(***************************************************************************)
\* validate_travel_plan was applied to a raw plan
Validated == probe # None /\ probe.fn = "validate_travel_plan" /\ "out" \in DOMAIN probe

\* plans in the canonical shape that satisfy the invariants of the schema:
\* every field of every model is present, with or without the data-source
\* annotation of a generated plan
CanonicalPlans ==
  {RawPlan(<<Dict([leg_name |-> Str("Delhi -> Agra"),
                   transport_options |-> List(<<RawOption(mode, cost)>>)])>>) :
     mode \in {Str("Train"), Str("")},
     cost \in {DefaultCost,
               Dict([min |-> Num(1000), max |-> Num(2000), currency |-> Str("INR")])}}
    \cup {Put(RawPlan(<<Dict([leg_name |-> Str("Delhi -> Agra"),
                              transport_options |->
                                List(<<RawOption(Str("Train"), DefaultCost)>>)])>>),
              "data_source", Str("LLM estimates"))}

\* C14: validate_travel_plan returns a canonical plan that satisfies the
\* invariants as it is, field for field, and validating what it returned
\* returns the same plan again.
C14_NoOpAndIdempotent ==
  /\ (Validated /\ probe.arg \in CanonicalPlans) =>
       /\ probe.out.ok
       /\ DumpedPlan(probe.out.val) = probe.arg
  /\ (Validated /\ "again" \in DOMAIN probe) => probe.again = probe.out

\* the routes of the raw plan validate_travel_plan was applied to
RawRoutesOf(p) == Get(p.arg, "routes").v

\* route r has its own transport_options, a list of dicts
HasOptionDicts(r) ==
  /\ Has(r, "transport_options")
  /\ IsList(Get(r, "transport_options"))
  /\ \A j \in 1..Len(Get(r, "transport_options").v) : IsDict(Get(r, "transport_options").v[j])

\* the cost object a bare number n stands for
CostObject(n) == [min |-> n, max |-> n, currency |-> "INR"]

\* C15: a route in the legacy shape with a bare numeric estimated_cost n >= 0
\* becomes a route with exactly one transport option whose estimated_cost is
\* {min: n, max: n, currency: "INR"}, and an option nested under
\* transport_options with such a cost gets the same cost object.
C15_NumericCostConverted ==
  Validated =>
    \A i \in 1..Len(RawRoutesOf(probe)) :
      /\ (/\ ~Has(RawRoutesOf(probe)[i], "transport_options")
          /\ IsNum(Get(RawRoutesOf(probe)[i], "estimated_cost"))
          /\ Get(RawRoutesOf(probe)[i], "estimated_cost").v >= 0) =>
           /\ probe.out.ok
           /\ Len(probe.out.val.routes[i].transport_options) = 1
           /\ probe.out.val.routes[i].transport_options[1].estimated_cost =
                CostObject(Get(RawRoutesOf(probe)[i], "estimated_cost").v)
      /\ HasOptionDicts(RawRoutesOf(probe)[i]) =>
           \A j \in 1..Len(Get(RawRoutesOf(probe)[i], "transport_options").v) :
             (/\ IsNum(Get(Get(RawRoutesOf(probe)[i], "transport_options").v[j], "estimated_cost"))
              /\ Get(Get(RawRoutesOf(probe)[i], "transport_options").v[j], "estimated_cost").v >= 0) =>
               /\ probe.out.ok
               /\ Len(probe.out.val.routes[i].transport_options) >= j
               /\ probe.out.val.routes[i].transport_options[j].estimated_cost =
                    CostObject(Get(Get(RawRoutesOf(probe)[i], "transport_options").v[j],
                                   "estimated_cost").v)

\* an estimated_cost object with min above max or with a negative bound
IsBadCost(c) ==
  /\ IsDict(c) /\ Has(c, "min") /\ Has(c, "max")
  /\ \/ Get(c, "min").v > Get(c, "max").v
     \/ Get(c, "min").v < 0
     \/ Get(c, "max").v < 0

\* C16: every estimated_cost of a plan validate_travel_plan returns has
\* 0 <= min <= max, and a plan with a transport option whose estimated_cost
\* has min above max or a negative bound fails validation.
C16_CostBoundsEnforced ==
  Validated =>
    /\ probe.out.ok =>
         \A i \in 1..Len(probe.out.val.routes) :
           \A j \in 1..Len(probe.out.val.routes[i].transport_options) :
             /\ 0 <= probe.out.val.routes[i].transport_options[j].estimated_cost.min
             /\ probe.out.val.routes[i].transport_options[j].estimated_cost.min
                  <= probe.out.val.routes[i].transport_options[j].estimated_cost.max
    /\ (\E i \in 1..Len(RawRoutesOf(probe)) :
          \/ IsBadCost(Get(RawRoutesOf(probe)[i], "estimated_cost"))
          \/ /\ HasOptionDicts(RawRoutesOf(probe)[i])
             /\ \E j \in 1..Len(Get(RawRoutesOf(probe)[i], "transport_options").v) :
                  IsBadCost(Get(Get(RawRoutesOf(probe)[i], "transport_options").v[j],
                                "estimated_cost")))
         => ~probe.out.ok

\* the span of the text without its fence, for a text that starts with one
Unfenced(s) ==
  IF Len(s) >= 6 /\ SubSeq(s, Len(s) - 2, Len(s)) = Fence
    THEN SubSeq(s, 4, Len(s) - 3)
    ELSE SubSeq(s, 4, Len(s))

\* a leading language tag removed
Untagged(s) == IF StartsWith(s, "json") THEN SubSeq(s, 5, Len(s)) ELSE s

\* step (2) of C17: the trimmed text with a surrounding code fence and a
\* leading language tag stripped
FenceStripped(trimmed) ==
  IF StartsWith(trimmed, Fence) THEN Strip(Untagged(Unfenced(trimmed))) ELSE trimmed

\* steps (2) to (4) of C17 on that text, and the parse error when all fail
LaterSteps(stripped) ==
  FirstOk(json_loads(stripped),
          FirstOk(IF Slice(stripped, Find(stripped, "{"), RFind(stripped, "}")) # <<>>
                    THEN json_loads(Slice(stripped, Find(stripped, "{"),
                                          RFind(stripped, "}"))[1])
                    ELSE Raise("JSONDecodeError", {"Expecting value"}),
                  FirstOk(IF Slice(stripped, Find(stripped, "["), RFind(stripped, "]")) # <<>>
                            THEN json_loads(Slice(stripped, Find(stripped, "["),
                                                  RFind(stripped, "]"))[1])
                            ELSE Raise("JSONDecodeError", {"Expecting value"}),
                          Raise("ValueError", {"No JSON payload found in LLM response"}))))

\* C17: _safe_json_parse returns the result of the first step that succeeds
\* of (1) the full text, (2) the trimmed text with a surrounding code fence
\* and a leading language tag stripped, (3) its span from the first "{" to
\* the last "}", (4) its span from the first "[" to the last "]", and raises
\* the parse error only when every step failed; the prose before a fenced
\* {"a":1} yields {"a": 1}.
C17_FirstSuccessfulStep ==
  (probe # None /\ probe.fn = "_safe_json_parse" /\ "out" \in DOMAIN probe) =>
    /\ probe.out = FirstOk(json_loads(probe.arg), LaterSteps(FenceStripped(Strip(probe.arg))))
    /\ probe.arg = ProseFencedText => probe.out = Ok(Dict([a |-> Num(10)]))

\* the full option a bare mode name s stands for, without its summary
ExpandedOption(s) ==
  [mode |-> s, estimated_travel_time |-> "N/A", distance_km |-> 10,
   available_vehicles |-> <<s>>,
   estimated_cost |-> [min |-> 0, max |-> 0, currency |-> "INR"]]

\* the fields of a validated option that C18 names
NamedFields(o) ==
  [mode |-> o.mode, estimated_travel_time |-> o.estimated_travel_time,
   distance_km |-> o.distance_km, available_vehicles |-> o.available_vehicles,
   estimated_cost |-> o.estimated_cost]

\* C18: a route whose transport_options is a non-empty list of bare strings
\* gets one full option per string, in the same order, with or without a
\* leg_name on the route.
C18_ModeNamesExpanded ==
  Validated =>
    \A i \in 1..Len(RawRoutesOf(probe)) :
      (/\ Has(RawRoutesOf(probe)[i], "transport_options")
       /\ IsList(Get(RawRoutesOf(probe)[i], "transport_options"))
       /\ Get(RawRoutesOf(probe)[i], "transport_options").v # <<>>
       /\ \A j \in 1..Len(Get(RawRoutesOf(probe)[i], "transport_options").v) :
            IsStr(Get(RawRoutesOf(probe)[i], "transport_options").v[j])) =>
        /\ probe.out.ok
        /\ [j \in 1..Len(probe.out.val.routes[i].transport_options) |->
              NamedFields(probe.out.val.routes[i].transport_options[j])]
             = [j \in 1..Len(Get(RawRoutesOf(probe)[i], "transport_options").v) |->
                  ExpandedOption(Get(RawRoutesOf(probe)[i], "transport_options").v[j].v)]

\* one of the keywords occurs in the text, whatever the case of its letters
Mentions(text, keywords) == \E k \in keywords : Contains(ToLower(text), k)

\* C19: _friendly_llm_error returns, for every error text, exactly one of
\* the four messages: the rate-limit message when the text mentions
\* RESOURCE_EXHAUSTED or 429, else the invalid-key message when it mentions
\* API KEY, INVALID, 401 or 403, else the timeout message when it mentions
\* DEADLINE, TIMEOUT or 504, else the generic message; letters match in
\* either case.
C19_FriendlyCategory ==
  (probe # None /\ probe.fn = "_friendly_llm_error" /\ "out" \in DOMAIN probe) =>
    probe.out =
      IF Mentions(ExcText(probe.arg), {"resource_exhausted", "429"})
        THEN "The AI service rate limit was exceeded. Please try again later."
      ELSE IF Mentions(ExcText(probe.arg), {"api key", "invalid", "401", "403"})
        THEN "The API key appears to be invalid or expired. Please update the API key."
      ELSE IF Mentions(ExcText(probe.arg), {"deadline", "timeout", "504"})
        THEN "The AI service timed out. Please try again in a moment."
      ELSE "The AI service is currently unavailable. Please try again later."

\* C19 happens: a lower-case text that mentions a timeout before an invalid
\* key gets the invalid-key message.
C19_Witness ==
  /\ probe # None /\ probe.fn = "_friendly_llm_error" /\ "out" \in DOMAIN probe
  /\ ExcText(probe.arg) = "Timeout: 401"
  /\ probe.out = "The API key appears to be invalid or expired. Please update the API key."

(***************************************************************************)
(* Properties of the app flow around generate_travel_plan_json             *)
(***************************************************************************)
\* C20: without GEOAPIFY_API_KEY, a run of the app with a non-empty source,
\* at least one destination and the generate button pressed does not stop:
\* it reaches generate_travel_plan_json, and a plan that is returned carries
\* data_source "LLM estimates" and data_source_error "GEOAPIFY_API_KEY is not
\* set".
C20_MissingKeyNeverStops ==
  (/\ environ.GEOAPIFY_API_KEY = None
   /\ page # None
   /\ page.generate_btn
   /\ Strip(page.inputs.source) # ""
   /\ page.inputs.destinations # <<>>) =>
    /\ page.outcome \in {"generating", "plan"} \/ status = "raised"
    /\ (status = "returned" /\ "error" \notin DOMAIN result) =>
         /\ result.data_source = "LLM estimates"
         /\ result.data_source_error = "GEOAPIFY_API_KEY is not set"

(***************************************************************************)
(* Properties of the routing step and of the session's memory              *)
(***************************************************************************)
\* two HTTP calls of the provider ask the same thing
SameCall(a, b) == a.call = b.call /\ a.what = b.what

\* an HTTP call of the provider failed in this call
SomeCallFailed == \E i \in 1..Len(outbound) : ~outbound[i].ok

\* the returned plan has the routes of the model and the annotation of a
\* provider that was not available
UsesNoProviderRoutes ==
  /\ "data_source" \in DOMAIN result
  /\ result.data_source = "LLM estimates"
  /\ "data_source_error" \in DOMAIN result
  /\ result.routes = LastAttempt.plan.routes

\* C21: within a call no geocode or route call of the provider is made twice
\* for the same place or leg and mode, and when one of them failed a plan that
\* is returned has no provider routes and is annotated "LLM estimates".
C21_SingleFailureDisablesProvider ==
  /\ \A i, j \in 1..Len(outbound) : i < j => ~SameCall(outbound[i], outbound[j])
  /\ (status = "returned" /\ SomeCallFailed) => UsesNoProviderRoutes

\* a step of chat_with_memory leaves the fields of the plan generator and
\* the preferences as they are
ChatKeepsTrips ==
  /\ memory'.last_trip = memory.last_trip
  /\ memory'.generated_trips = memory.generated_trips
  /\ memory'.preferences = memory.preferences

\* a step of generate_travel_plan_json leaves the field of the chat and the
\* preferences as they are
GenerationKeepsChat ==
  /\ memory'.chat_history = memory.chat_history
  /\ memory'.preferences = memory.preferences

\* C22: every step of generate_travel_plan_json leaves chat_history and
\* preferences unchanged, and every call of chat_with_memory leaves last_trip,
\* generated_trips and preferences unchanged, whether it succeeds, fails or
\* takes the suggestion shortcut.
C22_SingleWriter ==
  [][IF nchats' # nchats THEN ChatKeepsTrips ELSE GenerationKeepsChat]_vars

\* C22 happens: a plan was generated after a chat recorded its turns, and
\* memory holds the turns and the plan.
C22_Witness ==
  /\ chat # None
  /\ memory.chat_history # <<>>
  /\ memory.generated_trips # <<>>
  /\ Len(memory.generated_trips) > Len(chat.memory0.generated_trips)
  /\ status = "returned"

\* an option that get_transport_options built
ProviderDerived(opt) ==
  StartsWith(opt.route_summary, "Distance/time from Geoapify routing.")

\* every option of the returned routes satisfies P
AllOptions(P(_)) ==
  \A i \in 1..Len(result.routes) :
    \A j \in 1..Len(result.routes[i].transport_options) :
      P(result.routes[i].transport_options[j])

\* an option that get_transport_options did not build
ModelDerived(opt) == ~ProviderDerived(opt)

\* C23: the routes of a returned plan are all the provider's or all the
\* model's; when the provider failed on a leg, also after earlier legs were
\* fetched, no fetched leg is kept and the routes are the model's.
C23_AllOrNothing ==
  status = "returned" =>
    /\ AllOptions(ProviderDerived) \/ AllOptions(ModelDerived)
    /\ IsStr(provider_error) =>
         /\ routes_from_provider = None
         /\ result.routes = LastAttempt.plan.routes
         /\ AllOptions(ModelDerived)
    /\ ~IsStr(provider_error) =>
         /\ result.routes = routes_from_provider.v
         /\ AllOptions(ProviderDerived)

\* C23 happens: the first leg of a two-leg request was fetched, the lookup of
\* the second leg failed, and a plan is returned.
C23_Witness ==
  /\ status = "returned"
  /\ Len(args.destinations) = 2
  /\ leg = 2
  /\ IsStr(provider_error)
  /\ \E i \in 1..Len(outbound) : outbound[i].call = "route" /\ outbound[i].ok
  /\ result.routes # <<>>

\* the invariants of TransportOption (schema.py:16-29) and of EstimatedCost
\* (schema.py:4-13) on an option
OptionInvariants(opt) ==
  /\ opt.distance_km > 0
  /\ opt.available_vehicles # <<>>
  /\ 0 <= opt.estimated_cost.min
  /\ opt.estimated_cost.min <= opt.estimated_cost.max

\* C24: every transport option of every returned plan has distance_km > 0, a
\* non-empty list of vehicles and 0 <= estimated_cost.min <=
\* estimated_cost.max, also when the routes are the provider's, merged after
\* validation.
C24_ReturnedOptionsValid ==
  status = "returned" => AllOptions(OptionInvariants)

(***************************************************************************)
(* Properties of get_transport_options, validate_travel_plan and           *)
(* _safe_json_parse on their own                                           *)
(***************************************************************************)
\* get_transport_options was applied and returned or raised
OptionsApplied ==
  probe # None /\ probe.fn = "get_transport_options" /\ "out" \in DOMAIN probe

\* the route call answered by reply succeeded with distance > 0 and time > 0
Usable(reply) ==
  /\ reply.kind = "ok"
  /\ IsNum(reply.distance) /\ reply.distance.v > 0
  /\ IsNum(reply.time) /\ reply.time.v > 0

\* the labels of the usable modes of the answers a, driving first
UsableLabels(a) ==
  (IF Usable(a.rd) THEN <<"Driving">> ELSE <<>>)
    \o (IF Usable(a.rt) THEN <<"Transit">> ELSE <<>>)

\* round(rate x distance_km) as a whole amount, distance_km in tenths
RoundedCost(rate, distance_km) == Whole((rate * distance_km + 5) \div 10)

\* the cost of the claim for an option: rates 10 and 16 for driving, 2 and 6
\* for transit
CostByRate(opt) ==
  IF opt.mode = "Transit"
    THEN /\ opt.estimated_cost.min = RoundedCost(2, opt.distance_km)
         /\ opt.estimated_cost.max = RoundedCost(6, opt.distance_km)
    ELSE /\ opt.estimated_cost.min = RoundedCost(10, opt.distance_km)
         /\ opt.estimated_cost.max = RoundedCost(16, opt.distance_km)

\* C25: get_transport_options returns one option for each mode whose route
\* call succeeded with distance > 0 and time > 0, driving before transit;
\* it raises, and then ProviderError, exactly when a geocode call failed or
\* no mode is usable; it never returns an empty list; the cost of every
\* option is round(rate x distance_km) for the rates of its mode, with
\* min <= max.
C25_OptionsPerUsableMode ==
  OptionsApplied =>
    IF probe.arg.gs.kind # "ok" \/ probe.arg.gd.kind # "ok" \/ UsableLabels(probe.arg) = <<>>
      THEN ~probe.out.ok /\ probe.out.exc = "ProviderError"
      ELSE /\ probe.out.ok
           /\ probe.out.val # <<>>
           /\ [i \in 1..Len(probe.out.val) |-> probe.out.val[i].mode] = UsableLabels(probe.arg)
           /\ \A i \in 1..Len(probe.out.val) :
                /\ CostByRate(probe.out.val[i])
                /\ probe.out.val[i].estimated_cost.min <= probe.out.val[i].estimated_cost.max

\* route r of a raw plan is in the legacy shape: no transport_options
LegacyShape(r) == IsDict(r) /\ ~Has(r, "transport_options")

\* the leg name of the claim for the legacy route r at position n: its own
\* when the field is there, else from and to when both are there, else Leg n
NameIfPresent(r, n) ==
  IF Has(r, "leg_name") THEN Get(r, "leg_name").v
  ELSE IF Has(r, "from") /\ Has(r, "to")
    THEN Get(r, "from").v \o " -> " \o Get(r, "to").v
  ELSE "Leg " \o ToString(n)

\* the same with "there" read as "there and not empty"
NameIfNonEmpty(r, n) ==
  IF Has(r, "leg_name") /\ Get(r, "leg_name").v # "" THEN Get(r, "leg_name").v
  ELSE IF /\ Has(r, "from") /\ Get(r, "from").v # ""
          /\ Has(r, "to") /\ Get(r, "to").v # ""
    THEN Get(r, "from").v \o " -> " \o Get(r, "to").v
  ELSE "Leg " \o ToString(n)

\* the validated plan has the routes of the raw plan in number and order,
\* every legacy route as one option under the name Name gives it
LegacyRoutesNamed(Name(_, _)) ==
  (Validated /\ probe.out.ok) =>
    /\ Len(probe.out.val.routes) = Len(RawRoutesOf(probe))
    /\ \A i \in 1..Len(RawRoutesOf(probe)) :
         IF LegacyShape(RawRoutesOf(probe)[i])
           THEN /\ Len(probe.out.val.routes[i].transport_options) = 1
                /\ probe.out.val.routes[i].leg_name = Name(RawRoutesOf(probe)[i], i)
           ELSE Has(RawRoutesOf(probe)[i], "leg_name") =>
                  probe.out.val.routes[i].leg_name = Get(RawRoutesOf(probe)[i], "leg_name").v

\* C26 as stated: a legacy route becomes a route with exactly one option whose
\* leg_name is its own leg_name if present, otherwise "<from> -> <to>" when
\* both are given, otherwise "Leg N" for its 1-based position; the number and
\* the order of the routes are preserved.
C26_LegacyNamedIfPresent == LegacyRoutesNamed(NameIfPresent)

\* C26 amended: a legacy route becomes a route with exactly one option whose
\* leg_name is its own leg_name if that is present and not empty, otherwise
\* "<from> -> <to>" when from and to are both present and not empty, otherwise
\* "Leg N" for its 1-based position; the number and the order of the routes
\* are preserved.
C26_LegacyNamedIfNonEmpty == LegacyRoutesNamed(NameIfNonEmpty)

\* C26 happens: the second route of a plan is a legacy route without names
\* and is validated as "Leg 2", after a first route that kept its name.
C26_Witness ==
  /\ Validated /\ probe.out.ok
  /\ Len(RawRoutesOf(probe)) = 2
  /\ LegacyShape(RawRoutesOf(probe)[2])
  /\ probe.out.val.routes[1].leg_name = "Delhi -> Agra"
  /\ probe.out.val.routes[2].leg_name = "Leg 2"
  /\ Len(probe.out.val.routes[2].transport_options) = 1

\* validate_travel_plan was applied to a plan that differs from a valid plan
\* in destinations and destination only
DestinationsValidated == Validated /\ probe.arg \in DestinationPlans

\* C27: a plan without destinations and with a non-empty destination d is
\* validated with destinations [d]; a plan with destinations keeps them as
\* they are, whatever its destination; a plan with neither fails validation,
\* at the field destinations.
C27_DestinationWrapped ==
  DestinationsValidated =>
    IF Has(probe.arg, "destinations")
      THEN /\ probe.out.ok
           /\ probe.out.val.destinations = StrListValue(Get(probe.arg, "destinations"))
    ELSE IF Truthy(Get(probe.arg, "destination"))
      THEN /\ probe.out.ok
           /\ probe.out.val.destinations = <<Get(probe.arg, "destination").v>>
    ELSE /\ ~probe.out.ok
         /\ probe.out.exc = "ValidationError"
         /\ probe.out.msg = {"destinations"}

\* C27 happens: a plan with destination "Goa" and no destinations is
\* validated with destinations ["Goa"].
C27_Witness ==
  /\ DestinationsValidated /\ probe.out.ok
  /\ ~Has(probe.arg, "destinations")
  /\ Get(probe.arg, "destination") = Str("Goa")
  /\ probe.out.val.destinations = <<"Goa">>

\* C28: for every JSON value v, _safe_json_parse of the fenced rendering of
\* v, with the language tag json or without a tag, returns v: only the fence
\* and the leading tag are removed, also when v holds the text "json".
C28_FencedContentUnchanged ==
  (probe # None /\ probe.fn = "_safe_json_parse" /\ "out" \in DOMAIN probe) =>
    \A r \in FencedRenderings :
      probe.arg = r.text => probe.out = Ok(JsonValue[r.of])

(***************************************************************************)
(* Termination                                                             *)
(***************************************************************************)
\* the model calls of the call that were made with a repair prompt
Repairs == {i \in 1..Len(attempts) : attempts[i].prompt.kind = "repair"}

\* the steps a call has taken are bounded: at most two model calls, of which
\* at most one with a repair prompt, at most one wait, at most one pass per
\* destination with one geocode call per place and one route call per mode;
\* a call of chat_with_memory made at most two model calls for suggestions
\* and two for the answer
BoundedSteps ==
  /\ Len(attempts) <= 2
  /\ Cardinality(Repairs) <= 1
  /\ Len(sleeps) <= 1
  /\ args # None => leg <= Len(args.destinations) + 1
  /\ args # None => Len(outbound) <= 3 * Len(args.destinations) + 1
  /\ chat # None => Len(chat.calls) <= 4 /\ Len(chat.sleeps) <= 2

\* C29: every call of generate_travel_plan_json that is running returns or
\* raises, given that every outbound call returns or raises, and it does so
\* after a bounded number of steps: the model is called at most twice, a
\* repair prompt is sent at most once; every call of chat_with_memory returns
\* after a bounded number of model calls.
C29_CallsTerminate ==
  /\ (status = "running") ~> (status \in {"returned", "raised"})
  /\ []BoundedSteps

\* C29 happens: a call of generate_travel_plan_json ended after an invalid
\* reply and its repair, and a call of chat_with_memory ended after two model
\* calls.
C29_Witness ==
  /\ status = "returned"
  /\ Len(attempts) = 2 /\ Repairs = {2}
  /\ chat # None /\ Len(chat.calls) = 2

(***************************************************************************)
(* Properties of the memory across the runs of the app                     *)
(***************************************************************************)
\* sequence p is the beginning of sequence q
IsPrefix(p, q) == Len(p) <= Len(q) /\ SubSeq(q, 1, Len(p)) = p

\* a step of the session is the beginning of a run of the script
RunBegins == page' # page /\ page'.run = Runs + 1

\* the session keeps its memory: what was recorded is still there, and the
\* beginning of a run that makes no call changes nothing
MemoryKept ==
  /\ memory' # None
  /\ IsPrefix(memory.generated_trips, memory'.generated_trips)
  /\ IsPrefix(memory.chat_history, memory'.chat_history)
  /\ (RunBegins /\ nchats' = nchats) => memory' = memory

\* the first run creates the memory: empty, or with the turns of the chat
\* of that run
MemoryCreated ==
  /\ RunBegins
  /\ memory'.last_trip = None
  /\ memory'.generated_trips = <<>>
  /\ memory'.preferences = Dict(<<>>)
  /\ IF nchats' = nchats THEN memory'.chat_history = <<>>
     ELSE chat'.memory0.chat_history = <<>> /\ chat'.memory0 = init_memory

\* C30: init_memory creates the memory only when the session has none, with
\* empty chat_history, null last_trip, empty generated_trips and empty
\* preferences, and leaves an existing memory unchanged: over every sequence
\* of runs the trips and the chat turns recorded earlier are still present.
C30_MemorySurvivesReruns ==
  [][IF memory = None THEN MemoryCreated ELSE MemoryKept]_vars

\* C30 happens: a second run of the script began after a plan was generated
\* in the first, and the plan is still in memory.
C30_Witness ==
  /\ page # None /\ page.run = 2
  /\ page.outcome \in {"idle", "stopped"}
  /\ status = "returned"
  /\ Len(memory.generated_trips) = 1
  /\ memory.generated_trips[1] = result


(***************************************************************************)
(* Memory after a failed call, the shape of the conversation, and the       *)
(* outcomes of the two model attempts                                      *)
(***************************************************************************)
\* a call that raised left the memory as it was when the call began
FailedCallKeepsMemory == status = "raised" => memory = mem0

\* last_trip is set exactly when a plan was stored
TripIffPlan == (memory.last_trip = None) <=> (memory.generated_trips = <<>>)

\* the newest stored plan, when it carries the provider's routes, has the
\* destinations of last_trip
NewestPlanOfLastTrip ==
  (memory.generated_trips # <<>>
     /\ "data_source" \in DOMAIN memory.generated_trips[Len(memory.generated_trips)]
     /\ memory.generated_trips[Len(memory.generated_trips)].data_source = "Geoapify routing") =>
    memory.generated_trips[Len(memory.generated_trips)].destinations =
      memory.last_trip.destinations

\* last_trip and generated_trips are written in one step, the return of a
\* successful call, with the summary of its request and its plan; every
\* other step, the failure of a call included, leaves both as they are
TripWrittenWithPlan ==
  IF status = "running" /\ status' = "returned"
    THEN /\ memory'.last_trip = RequestSummary
         /\ memory'.generated_trips = Append(memory.generated_trips, result')
    ELSE /\ memory'.last_trip = memory.last_trip
         /\ memory'.generated_trips = memory.generated_trips

\* C31: a call of generate_travel_plan_json that raises leaves the memory
\* exactly as it was before the call, so last_trip still is the summary of the
\* last successful request and generated_trips has no new entry; last_trip and
\* the last element of generated_trips are always written together, by the
\* same successful request.
C31_FailureLeavesMemory ==
  /\ [](FailedCallKeepsMemory /\ TripIffPlan /\ NewestPlanOfLastTrip)
  /\ [][TripWrittenWithPlan]_vars

\* C31 happens: after a successful call, a call for another request fails
\* with the invalid-output error after its repair attempt; last_trip is not
\* the summary of the failed request and one plan is stored.
C31_Witness ==
  /\ status = "raised"
  /\ ncalls = 2
  /\ "embedded" \in DOMAIN result
  /\ Len(attempts) = 2 /\ attempts[2].prompt.kind = "repair"
  /\ memory.last_trip # None
  /\ memory.last_trip # RequestSummary
  /\ Len(memory.generated_trips) = 1

\* chat_history is a sequence of (user, assistant) pairs, at most one pair
\* for each call of chat_with_memory
TurnsPaired ==
  /\ Len(memory.chat_history) % 2 = 0
  /\ Len(memory.chat_history) <= 2 * nchats
  /\ \A i \in 1..Len(memory.chat_history) :
       memory.chat_history[i][1] = (IF i % 2 = 1 THEN "user" ELSE "assistant")

\* the pair a call of chat_with_memory records: its input and what it returned
PairOf(c) == <<<<"user", c.user_input>>, <<"assistant", c.returned>>>>

\* a call of chat_with_memory appends its pair after the pairs of the earlier
\* calls or records nothing; a step of generate_travel_plan_json leaves the
\* history as it is
TurnsInCallOrder ==
  IF nchats' # nchats
    THEN \/ memory'.chat_history = memory.chat_history
         \/ memory'.chat_history = memory.chat_history \o PairOf(chat')
    ELSE memory'.chat_history = memory.chat_history

\* both model calls of the last call of chat_with_memory raised
BothAttemptsFailed ==
  /\ chat # None
  /\ Len(chat.calls) = 2
  /\ ~chat.calls[1].ok
  /\ ~chat.calls[2].ok

\* the last call of chat_with_memory returned the unavailability message and
\* recorded nothing
NothingRecorded ==
  /\ chat.returned = ExpectedUnavailable(LastChatCall)
  /\ memory.chat_history = chat.memory0.chat_history

\* the last call of chat_with_memory recorded its pair
PairRecorded == memory.chat_history = chat.memory0.chat_history \o PairOf(chat)

\* the replies of the suggestion shortcut when suggest_places got no reply
\* from the model: the places of the places file, or the could-not-fetch text
IsSuggestionReply(text) ==
  \/ text = Str("I could not fetch suggestions right now. Please try again in a moment.")
  \/ IsStr(text) /\ StartsWith(text.v, "Suggested places near ")

\* C32 as stated: chat_history has even length and is made of (user,
\* assistant) pairs in call order, and every call of chat_with_memory whose
\* model calls both fail returns the unavailability message and records
\* neither turn.
C32_FailedChatNeverRecorded ==
  /\ [](TurnsPaired /\ (BothAttemptsFailed => NothingRecorded))
  /\ [][TurnsInCallOrder]_vars

\* C32 amended: after any sequence of calls chat_history has even length and
\* is made of (user, assistant) pairs in call order; a call that sends the chat
\* prompt and whose model calls both fail returns the unavailability message
\* and records neither turn, and it is the only call that records nothing: a
\* call that takes the suggestion shortcut records its pair, with the places
\* of the places file or the could-not-fetch text, also when both model calls
\* of suggest_places fail.
C32_FailedPromptNeverRecorded ==
  /\ [](TurnsPaired
          /\ ((BothAttemptsFailed /\ chat.prompt # None) => NothingRecorded)
          /\ ((chat # None /\ ~(BothAttemptsFailed /\ chat.prompt # None)) => PairRecorded)
          /\ ((BothAttemptsFailed /\ chat.prompt = None) => IsSuggestionReply(chat.returned)))
  /\ [][TurnsInCallOrder]_vars

\* C32 happens: the first call of chat_with_memory recorded its pair, and
\* both model calls of the second, for the chat prompt, failed: the history
\* still is that one pair.
C32_Witness ==
  /\ nchats = 2
  /\ BothAttemptsFailed
  /\ chat.prompt # None
  /\ Len(memory.chat_history) = 2
  /\ memory.chat_history[1] = <<"user", "Suggest places near Jaipur">>
  /\ chat.user_input = "what's the plan?"

\* the result of the i-th model call of this call: "T" when the call raised,
\* "OK" when the reply is a valid plan, "V" when the reply is not a valid plan
ResultOf(i) == IF attempts[i].outcome \in {"T", "OK"} THEN attempts[i].outcome ELSE "V"

\* the results of the model calls of this call, in order
Results == [i \in 1..Len(attempts) |-> ResultOf(i)]

\* the call is over and got as far as the model
CallOver == status \in {"returned", "raised"} /\ attempts # <<>>

\* the call failed with RuntimeError and the friendly category of the
\* exception of its last model call
FailedFriendly ==
  /\ status = "raised"
  /\ result.exc = "RuntimeError"
  /\ result.msg = {ExpectedCategory(LastAttempt.error)}

\* the call failed with ValueError "LLM output invalid: " followed by the
\* error of its last model call
FailedInvalid ==
  /\ status = "raised"
  /\ result.exc = "ValueError"
  /\ result.msg = {"LLM output invalid: "}
  /\ "embedded" \in DOMAIN result
  /\ result.embedded = LastAttempt.error

\* the outcome that belongs to the results of the model calls
OutcomeOf(results) ==
  IF results \in {<<"OK">>, <<"T", "OK">>, <<"V", "OK">>} THEN status = "returned"
  ELSE IF results \in {<<"T", "T">>, <<"V", "T">>} THEN FailedFriendly
  ELSE IF results \in {<<"V", "V">>, <<"T", "V">>} THEN FailedInvalid
  ELSE FALSE

\* the first model call carries the plan prompt; the second carries the
\* repair prompt for the first reply when the first result was V and the
\* prompt of the first call when it was T
PromptsFollow(results) ==
  /\ attempts # <<>> => attempts[1].prompt.kind = "plan"
  /\ Len(attempts) = 2 =>
       attempts[2].prompt = (IF results[1] = "V" THEN RepairFor(1) ELSE attempts[1].prompt)

\* C33: the two model attempts are one budget shared by transport and
\* validation failures, and the results of the attempts determine the outcome
\* of the call: OK, T-OK and V-OK return a plan; T-T and V-T raise RuntimeError
\* with the friendly category of the last exception; V-V and T-V raise
\* ValueError "LLM output invalid: <last validation error>"; the second call
\* carries the repair prompt exactly when the first result was V and the
\* original prompt when it was T, so T-V ends without a repair call.
C33_OutcomeByAttempts ==
  /\ CallOver => OutcomeOf(Results)
  /\ PromptsFollow(Results)
====
